---- MODULE Spec2Model ----
(***************************************************************************)
(* A model of md2hwpx's MarkdownToHwpx converter                           *)
(* (src/md2hwpx/MarkdownToHwpx.py): template parsing and validation, the   *)
(* character-format variant cache, the block walk with its lists, links    *)
(* and pictures, the table layout and the header convert() returns.        *)
(*                                                                         *)
(* XML ids are modelled as naturals.  An XML record list is a sequence in  *)
(* document order; "find" returns the first match, as ElementTree does.    *)
(***************************************************************************)
EXTENDS Naturals, Sequences, FiniteSets, TLC

VARIABLES
    header_xml,          \* the template's header.xml (input of the constructor)
    section_xml,         \* the template's section0.xml: its paragraphs (input)
    phase,               \* "new", "ready", "failed", "converted"
    error,               \* class of the exception raised, "none" if none
    header_root,         \* the parsed, mutable header tree
    max_char_pr_id,
    char_pr_cache,       \* (base id, frozenset of formats) -> new charPr id
    normal_style_id,
    normal_para_pr_id,
    dynamic_style_map,
    outline_style_ids,
    placeholder_styles,
    table_border_fill_id,
    max_para_pr_id,
    images,              \* the image registry self.images
    last_field_id,       \* id of the hyperlink field begun last
    drawn,               \* number of values read from the clock and the random source
    entropy,             \* the values the clock and the random source return, in turn
    ast,                 \* the document tree handed to the constructor (self.ast)
    earlier,             \* what an earlier converter instance returned
    returned,            \* the last direct call of a helper method and its result
    body,                \* for each visited block, the paragraphs it emitted
    visited,             \* the blocks handed to the walk so far, in order
    calls,               \* log of the _get_char_pr_id calls made
    table,               \* the last table handed to _handle_table_elem
    cells,               \* the cells it emitted
    pc,                  \* position inside convert_to_hwpx
    env,                 \* what convert_to_hwpx was called with
    output_file          \* state of the output path: "absent" or "written"

vars == <<header_xml, section_xml, phase, error, header_root, max_char_pr_id,
          char_pr_cache, normal_style_id, normal_para_pr_id, dynamic_style_map,
          outline_style_ids, placeholder_styles, table_border_fill_id, body,
          visited, calls, table, cells, pc, env, output_file, max_para_pr_id,
          images, last_field_id, drawn, entropy, ast, earlier, returned>>

templateVars == <<header_xml, section_xml>>
converterVars == <<header_root, max_char_pr_id, char_pr_cache, normal_style_id,
                   normal_para_pr_id, dynamic_style_map, outline_style_ids,
                   placeholder_styles, table_border_fill_id, max_para_pr_id,
                   images, last_field_id>>
envVars == <<entropy, ast, earlier, returned>>
tableVars == <<table, cells>>
staticVars == <<pc, env, output_file>>

---------------------------------------------------------------------------
(* Bounds of the model *)

MaxOutline == 2      \* outline levels a template paraPr may declare: 0..MaxOutline
MaxBlocks == 3       \* blocks handed to one walk
MaxHeaderLevel == 3  \* Markdown header levels 1..MaxHeaderLevel
MaxCalls == 3        \* direct _get_char_pr_id calls in one run
MaxRows == 2         \* rows of a table
MaxSpecs == 3        \* column specs of a table
MaxDraws == 2        \* values of the clock and the random source before they repeat
MaxBodyRows == 4     \* body rows of a table whose cell roles are asked for
MaxCols == 4         \* columns of a table whose cell roles are asked for
MaxCount == 40       \* counter values handed to _format_counter_text
MaxInlines == 2      \* inlines of the paragraph handed to _handle_para
ManySpecs == 7       \* a number of column specs that does not divide the table width

---------------------------------------------------------------------------
(* Generic helpers *)

Range(s) == {s[i] : i \in DOMAIN s}

Max(S) == CHOOSE m \in S : \A n \in S : n <= m

SeqsUpTo(S, n) == UNION {[1..k -> S] : k \in 0..n}

\* index of the first record of s whose id is id, 0 when there is none
\* (ElementTree's find('...[@id="..."]') returning the first match, or None)
FindIdx(s, id) ==
    IF \E i \in DOMAIN s : s[i].id = id
    THEN CHOOSE i \in DOMAIN s : s[i].id = id /\ \A j \in DOMAIN s : s[j].id = id => i <= j
    ELSE 0

\* the ascending list of a finite set of naturals (list.sort())
RECURSIVE SortedSeq(_)
SortedSeq(S) ==
    IF S = {} THEN <<>>
    ELSE LET m == CHOOSE x \in S : \A y \in S : x <= y
         IN <<m>> \o SortedSeq(S \ {m})

---------------------------------------------------------------------------
(* Template records *)

\* An hh:charPr record.  marks holds the child elements among bold, italic,
\* supscript, subscript; underline is the type attribute of its hh:underline
\* child ("absent" when it has none).
CharPr(id, marks, ul) ==
    [id |-> id, marks |-> marks, underline |-> ul,
     ulColor |-> "base", textColor |-> "base"]

\* An hh:paraPr record with the type and level of its first OUTLINE heading
\* ("NONE": it has no such heading).
\* idRef is the numbering a heading of type NUMBER refers to.
ParaPr(id, type, level) == [id |-> id, type |-> type, level |-> level, idRef |-> 0]

\* An hh:style record.
Style(id, p, c) == [id |-> id, paraPrIDRef |-> p, charPrIDRef |-> c]

Header(charPrs, hasCP, paraPrs, styles, borderFills) ==
    [present |-> TRUE, charPrs |-> charPrs, hasCharProperties |-> hasCP,
     paraPrs |-> paraPrs, hasParaProperties |-> TRUE, styles |-> styles,
     borderFills |-> borderFills, numberings |-> <<>>, hasNumberings |-> FALSE]

NoHeader ==
    [present |-> FALSE, charPrs |-> <<>>, hasCharProperties |-> FALSE,
     paraPrs |-> <<>>, hasParaProperties |-> FALSE, styles |-> <<>>,
     borderFills |-> <<>>, numberings |-> <<>>, hasNumberings |-> FALSE]

\* The itemCnt attributes of the four collections convert() recounts
ItemCnt(charProperties, paraProperties, numberings, borderFills) ==
    [charProperties |-> charProperties, paraProperties |-> paraProperties,
     numberings |-> numberings, borderFills |-> borderFills]

\* header_root before / without parsing (self.header_root = None)
NoRoot ==
    [parsed |-> FALSE, charPrs |-> <<>>, hasCharProperties |-> FALSE,
     paraPrs |-> <<>>, hasParaProperties |-> FALSE, styles |-> <<>>,
     borderFills |-> <<>>, numberings |-> <<>>, hasNumberings |-> FALSE,
     itemCnt |-> ItemCnt(0, 0, 0, 0)]

---------------------------------------------------------------------------
(* _parse_styles_and_init_xml *)

\* --- 0. Find Max IDs
MaxIdOf(records) ==
    IF records = <<>> THEN 0 ELSE Max({records[i].id : i \in DOMAIN records} \cup {0})

\* _ensure_table_border_fill: the id given to the appended border fill
NewBorderFillId(h) == MaxIdOf([i \in DOMAIN h.borderFills |-> [id |-> h.borderFills[i]]]) + 1

\* --- 1. Find Normal Style (id="0" or first): its index in styles, 0 if none
NormalStyleIdx(h) ==
    IF FindIdx(h.styles, 0) # 0 THEN FindIdx(h.styles, 0)
    ELSE IF h.styles # <<>> THEN 1 ELSE 0

\* --- 2. Map Outline Levels: level -> id of the first paraPr declaring it
LevelToParaPr(h) ==
    LET declared == {h.paraPrs[i].level : i \in {j \in DOMAIN h.paraPrs : h.paraPrs[j].type = "OUTLINE"}}
        first(l) == CHOOSE i \in DOMAIN h.paraPrs :
                        /\ h.paraPrs[i].type = "OUTLINE" /\ h.paraPrs[i].level = l
                        /\ \A j \in DOMAIN h.paraPrs :
                               (h.paraPrs[j].type = "OUTLINE" /\ h.paraPrs[j].level = l) => i <= j
    IN [l \in declared |-> h.paraPrs[first(l)].id]

\* paraPr id -> the first style that references it
ParaPrToStyleInfo(h) ==
    LET refs == {h.styles[i].paraPrIDRef : i \in DOMAIN h.styles}
        first(p) == CHOOSE i \in DOMAIN h.styles :
                        /\ h.styles[i].paraPrIDRef = p
                        /\ \A j \in DOMAIN h.styles : h.styles[j].paraPrIDRef = p => i <= j
    IN [p \in refs |-> [style_id |-> h.styles[first(p)].id,
                        char_pr_id |-> h.styles[first(p)].charPrIDRef]]

\* Combine: the levels whose paraPr some style references
DynamicStyleMap(h) ==
    LET l2p == LevelToParaPr(h)
        p2s == ParaPrToStyleInfo(h)
    IN [l \in {k \in DOMAIN l2p : l2p[k] \in DOMAIN p2s} |->
            [style_id |-> p2s[l2p[l]].style_id,
             para_pr_id |-> l2p[l],
             char_pr_id |-> p2s[l2p[l]].char_pr_id]]

\* --- 3. Validation of the detected levels: TRUE when a ValueError is raised
OutlineLevelsInvalid(h) ==
    LET detected_levels == SortedSeq(DOMAIN DynamicStyleMap(h))
    IN /\ detected_levels # <<>>
       /\ \/ detected_levels[1] # 0
          \/ \E i \in DOMAIN detected_levels : detected_levels[i] # i - 1

\* --- 4. Validation: the forbidden properties found on the normal charPr
Forbidden == {"bold", "italic", "underline", "supscript", "subscript"}

NormalCharPrId(h) ==
    IF NormalStyleIdx(h) # 0 THEN h.styles[NormalStyleIdx(h)].charPrIDRef ELSE 0

FoundDirty(h) ==
    LET idx == FindIdx(h.charPrs, NormalCharPrId(h))
        rec == h.charPrs[idx]
        has(tag) == IF tag = "underline" THEN rec.underline # "absent" ELSE tag \in rec.marks
    IN IF idx = 0 THEN {}
       ELSE {tag \in Forbidden : has(tag) /\ ~(tag = "underline" /\ rec.underline = "NONE")}

NormalStyleDirty(h) == FoundDirty(h) # {}

\* the class of the exception _parse_styles_and_init_xml raises, "none" if none
ParseError(h) ==
    IF OutlineLevelsInvalid(h) THEN "ValueError"
    ELSE IF NormalStyleDirty(h) THEN "ValueError"
    ELSE "none"

\* the header tree after a successful parse: hh:numberings made sure of, the
\* table border fill appended; the itemCnt attributes are still those of the
\* template, which counts its records right
ParsedRoot(h) ==
    [parsed |-> TRUE, charPrs |-> h.charPrs, hasCharProperties |-> h.hasCharProperties,
     paraPrs |-> h.paraPrs, hasParaProperties |-> h.hasParaProperties,
     styles |-> h.styles,
     borderFills |-> Append(h.borderFills, NewBorderFillId(h)),
     numberings |-> h.numberings, hasNumberings |-> TRUE,
     itemCnt |-> ItemCnt(Len(h.charPrs), Len(h.paraPrs), Len(h.numberings),
                         Len(h.borderFills))]

\* The header tree serialised with the itemCnt attributes it had
HeaderAsLeft(root) == root

\* convert() before it serialises the header: itemCnt of each of the four
\* collections that exists is set to the number of its records
HeaderReturned(root) ==
    IF ~root.parsed THEN root
    ELSE [root EXCEPT
             !.itemCnt =
                 ItemCnt(IF root.hasCharProperties THEN Len(root.charPrs)
                         ELSE @.charProperties,
                         IF root.hasParaProperties THEN Len(root.paraPrs)
                         ELSE @.paraProperties,
                         IF root.hasNumberings THEN Len(root.numberings)
                         ELSE @.numberings,
                         Len(root.borderFills))]

---------------------------------------------------------------------------
(* _load_placeholder_styles / _find_placeholders *)

\* A template run's hp:t text: a literal followed by a {{name}} marker
\* (name = "" when the text holds no marker).
Text(lit, name) == [lit |-> lit, name |-> name]

\* str.upper() on the marker names the templates of the model use
Upper(name) ==
    CASE name = "h1" -> "H1"
      [] name = "h2" -> "H2"
      [] name = "h3" -> "H3"
      [] name = "body" -> "BODY"
      [] OTHER -> name

\* the (paragraph, run) positions of section0.xml in document order
RunPositions(sec) ==
    UNION {{<<i, j>> : j \in DOMAIN sec[i].runs} : i \in DOMAIN sec}

\* placeholders[NAME] = the ids of the last run whose text matches {{name}}
FindPlaceholders(sec) ==
    LET hits == {p \in RunPositions(sec) : sec[p[1]].runs[p[2]].text.name # ""}
        nameAt(p) == Upper(sec[p[1]].runs[p[2]].text.name)
        before(p, q) == p[1] < q[1] \/ (p[1] = q[1] /\ p[2] <= q[2])
        last(n) == CHOOSE p \in hits : nameAt(p) = n /\ \A q \in hits : nameAt(q) = n => before(q, p)
    IN [n \in {nameAt(p) : p \in hits} |->
            [charPrIDRef |-> sec[last(n)[1]].runs[last(n)[2]].charPrIDRef,
             paraPrIDRef |-> sec[last(n)[1]].paraPrIDRef]]

---------------------------------------------------------------------------
(* __init__ *)

EmptyMap == [x \in {} |-> 0]

\* MarkdownToHwpx(json_ast, header_xml_content, section_xml_content):
\* the header is parsed and validated when it is given, then the placeholders
\* are loaded when a section is given and the header was parsed.
Constructor ==
    /\ phase = "new"
    /\ IF header_xml.present /\ ParseError(header_xml) # "none"
       THEN /\ phase' = "failed"
            /\ error' = ParseError(header_xml)
            /\ UNCHANGED converterVars
       ELSE /\ phase' = "ready"
            /\ error' = "none"
            /\ header_root' = IF header_xml.present THEN ParsedRoot(header_xml) ELSE NoRoot
            /\ max_char_pr_id' = IF header_xml.present THEN MaxIdOf(header_xml.charPrs) ELSE 0
            /\ char_pr_cache' = EmptyMap
            /\ normal_style_id' =
                   IF header_xml.present /\ NormalStyleIdx(header_xml) # 0
                   THEN header_xml.styles[NormalStyleIdx(header_xml)].id ELSE 0
            /\ normal_para_pr_id' =
                   IF header_xml.present /\ NormalStyleIdx(header_xml) # 0
                   THEN header_xml.styles[NormalStyleIdx(header_xml)].paraPrIDRef ELSE 1
            /\ dynamic_style_map' =
                   IF header_xml.present THEN DynamicStyleMap(header_xml) ELSE EmptyMap
            /\ outline_style_ids' =
                   IF header_xml.present
                   THEN [l \in DOMAIN DynamicStyleMap(header_xml) |-> DynamicStyleMap(header_xml)[l].style_id]
                   ELSE EmptyMap
            /\ placeholder_styles' =
                   IF section_xml # <<>> /\ header_xml.present
                   THEN FindPlaceholders(section_xml) ELSE EmptyMap
            /\ table_border_fill_id' =
                   IF header_xml.present THEN NewBorderFillId(header_xml) ELSE 0
            /\ max_para_pr_id' = IF header_xml.present THEN MaxIdOf(header_xml.paraPrs) ELSE 0
            /\ images' = <<>>
            /\ UNCHANGED last_field_id
    /\ UNCHANGED <<templateVars, body, visited, calls, tableVars, drawn, envVars>>

\* The class instantiated directly
Construct ==
    /\ pc = "object"
    /\ Constructor
    /\ UNCHANGED staticVars

---------------------------------------------------------------------------
(* _get_char_pr_id: the character-format variant cache *)

Formats == {"BOLD", "ITALIC", "UNDERLINE", "COLOR_BLUE", "SUPERSCRIPT", "SUBSCRIPT"}

\* A Python set of formats is modelled by the order its elements were added
\* in; frozenset(active_formats) forgets that order.
FrozenSet(active_formats) == Range(active_formats)

\* cache_key = (base_id, frozenset(active_formats))
CacheKey(base_id, active_formats) == <<base_id, FrozenSet(active_formats)>>

\* The formats applied without taking the opposite script mark away
ApplyFormatsKeepingMarks(node, fs) ==
    LET m1 == IF "BOLD" \in fs THEN node.marks \cup {"bold"} ELSE node.marks
        m2 == IF "ITALIC" \in fs THEN m1 \cup {"italic"} ELSE m1
        m3 == IF "SUPERSCRIPT" \in fs THEN m2 \cup {"supscript"}
              ELSE IF "SUBSCRIPT" \in fs THEN m2 \cup {"subscript"}
              ELSE m2
        ul == IF "UNDERLINE" \in fs THEN "BOTTOM" ELSE node.underline
        ulc == IF "COLOR_BLUE" \in fs /\ ul # "absent" THEN "#0000FF"
               ELSE IF "UNDERLINE" \in fs THEN "#000000" ELSE node.ulColor
        tc == IF "COLOR_BLUE" \in fs THEN "#0000FF" ELSE node.textColor
    IN [node EXCEPT !.marks = m3, !.underline = ul, !.ulColor = ulc, !.textColor = tc]

\* Modify properties based on formats
ApplyFormats(node, fs) ==
    LET m1 == IF "BOLD" \in fs THEN node.marks \cup {"bold"} ELSE node.marks
        m2 == IF "ITALIC" \in fs THEN m1 \cup {"italic"} ELSE m1
        m3 == IF "SUPERSCRIPT" \in fs THEN (m2 \ {"subscript"}) \cup {"supscript"}
              ELSE IF "SUBSCRIPT" \in fs THEN (m2 \ {"supscript"}) \cup {"subscript"}
              ELSE m2
        ul == IF "UNDERLINE" \in fs THEN "BOTTOM" ELSE node.underline
        ulc == IF "COLOR_BLUE" \in fs /\ ul # "absent" THEN "#0000FF"
               ELSE IF "UNDERLINE" \in fs THEN "#000000" ELSE node.ulColor
        tc == IF "COLOR_BLUE" \in fs THEN "#0000FF" ELSE node.textColor
    IN [node EXCEPT !.marks = m3, !.underline = ul, !.ulColor = ulc, !.textColor = tc]

\* The converter's mutable state the handlers read and write, with the log
\* of the _get_char_pr_id calls and the count of clock / random values drawn.
ConverterState(root, maxChar, maxPara, cache, log, imgs, fid, n) ==
    [header_root |-> root, max_char_pr_id |-> maxChar, max_para_pr_id |-> maxPara,
     char_pr_cache |-> cache, calls |-> log, images |-> imgs, last_field_id |-> fid,
     drawn |-> n]

\* The state handed to a handler
CurrentState ==
    ConverterState(header_root, max_char_pr_id, max_para_pr_id, char_pr_cache, calls,
                   images, last_field_id, drawn)

\* The state a handler left behind becomes the converter's
StateLeft(st) ==
    /\ header_root' = st.header_root
    /\ max_char_pr_id' = st.max_char_pr_id
    /\ max_para_pr_id' = st.max_para_pr_id
    /\ char_pr_cache' = st.char_pr_cache
    /\ calls' = st.calls
    /\ images' = st.images
    /\ last_field_id' = st.last_field_id
    /\ drawn' = st.drawn

\* An id made of int(time.time() * 1000) and random.randint: the next value
\* of the clock and the random source, [ret, st]
GenId(st) ==
    [ret |-> entropy[(st.drawn % MaxDraws) + 1], st |-> [st EXCEPT !.drawn = @ + 1]]

Logged(st, base_id, active_formats, ret, appended) ==
    [st EXCEPT !.calls = Append(@, [base |-> base_id, formats |-> active_formats,
                                    ret |-> ret, appended |-> appended])]

\* _get_char_pr_id without the early return of lines 1501-1502: an empty
\* format set goes through the cache and the allocation like any other
GetCharPrIdNoEarlyReturn(st, base_id, active_formats) ==
    LET key == CacheKey(base_id, active_formats)
        root == st.header_root
        baseIdx == IF FindIdx(root.charPrs, base_id) # 0
                   THEN FindIdx(root.charPrs, base_id) ELSE FindIdx(root.charPrs, 0)
        new_id == st.max_char_pr_id + 1
        new_node == [ApplyFormats(root.charPrs[baseIdx], FrozenSet(active_formats))
                        EXCEPT !.id = new_id]
    IN IF key \in DOMAIN st.char_pr_cache
       THEN [ret |-> st.char_pr_cache[key],
             st |-> Logged(st, base_id, active_formats, st.char_pr_cache[key], FALSE)]
       ELSE IF ~root.parsed \/ baseIdx = 0
       THEN [ret |-> base_id, st |-> Logged(st, base_id, active_formats, base_id, FALSE)]
       ELSE [ret |-> new_id,
             st |-> Logged(
                 [st EXCEPT
                     !.header_root.charPrs =
                         IF root.hasCharProperties THEN Append(@, new_node) ELSE @,
                     !.max_char_pr_id = new_id,
                     !.char_pr_cache =
                         [k \in DOMAIN @ \cup {key} |-> IF k = key THEN new_id ELSE @[k]]],
                 base_id, active_formats, new_id, root.hasCharProperties)]

\* _get_char_pr_id numbering a new record by the number of records in the
\* table instead of by the counter of lines 352-357 and 1525
GetCharPrIdByCount(st, base_id, active_formats) ==
    LET key == CacheKey(base_id, active_formats)
        root == st.header_root
        baseIdx == IF FindIdx(root.charPrs, base_id) # 0
                   THEN FindIdx(root.charPrs, base_id) ELSE FindIdx(root.charPrs, 0)
        new_id == Len(root.charPrs)
        new_node == [ApplyFormats(root.charPrs[baseIdx], FrozenSet(active_formats))
                        EXCEPT !.id = new_id]
    IN IF active_formats = <<>>
       THEN [ret |-> base_id, st |-> Logged(st, base_id, active_formats, base_id, FALSE)]
       ELSE IF key \in DOMAIN st.char_pr_cache
       THEN [ret |-> st.char_pr_cache[key],
             st |-> Logged(st, base_id, active_formats, st.char_pr_cache[key], FALSE)]
       ELSE IF ~root.parsed \/ baseIdx = 0
       THEN [ret |-> base_id, st |-> Logged(st, base_id, active_formats, base_id, FALSE)]
       ELSE [ret |-> new_id,
             st |-> Logged(
                 [st EXCEPT
                     !.header_root.charPrs =
                         IF root.hasCharProperties THEN Append(@, new_node) ELSE @,
                     !.max_char_pr_id = new_id,
                     !.char_pr_cache =
                         [k \in DOMAIN @ \cup {key} |-> IF k = key THEN new_id ELSE @[k]]],
                 base_id, active_formats, new_id, root.hasCharProperties)]

\* _get_char_pr_id(base_id, active_formats): [ret, st], the id returned and the
\* state left behind.
GetCharPrId(st, base_id, active_formats) ==
    LET key == CacheKey(base_id, active_formats)
        root == st.header_root
        baseIdx == IF FindIdx(root.charPrs, base_id) # 0
                   THEN FindIdx(root.charPrs, base_id) ELSE FindIdx(root.charPrs, 0)
        new_id == st.max_char_pr_id + 1
        new_node == [ApplyFormats(root.charPrs[baseIdx], FrozenSet(active_formats))
                        EXCEPT !.id = new_id]
    IN IF active_formats = <<>>
       THEN [ret |-> base_id, st |-> Logged(st, base_id, active_formats, base_id, FALSE)]
       ELSE IF key \in DOMAIN st.char_pr_cache
       THEN [ret |-> st.char_pr_cache[key],
             st |-> Logged(st, base_id, active_formats, st.char_pr_cache[key], FALSE)]
       ELSE IF ~root.parsed \/ baseIdx = 0
       THEN [ret |-> base_id, st |-> Logged(st, base_id, active_formats, base_id, FALSE)]
       ELSE [ret |-> new_id,
             st |-> Logged(
                 [st EXCEPT
                     !.header_root.charPrs =
                         IF root.hasCharProperties THEN Append(@, new_node) ELSE @,
                     !.max_char_pr_id = new_id,
                     !.char_pr_cache =
                         [k \in DOMAIN @ \cup {key} |-> IF k = key THEN new_id ELSE @[k]]],
                 base_id, active_formats, new_id, root.hasCharProperties)]

---------------------------------------------------------------------------
(* The document tree and the emitted elements *)

\* An inline node {"t": t, "c": ...}: text is the content of a Str or Code,
\* the target of a Link or Image, c the child inlines of a wrapper or Link,
\* width the width attribute of an Image ("" when it has none; the height
\* attribute is treated by the code like the width).
Inline(t, text, c) == [t |-> t, text |-> text, c |-> c, width |-> "", height |-> ""]

ImageInline(target_url, width) == [Inline("Image", target_url, <<>>) EXCEPT !.width = width]

\* An Image with a width and a height attribute
SizedImage(target_url, width, height) ==
    [ImageInline(target_url, width) EXCEPT !.height = height]

Str(text) == Inline("Str", text, <<>>)

\* A table cell [attr, align, rowspan, colspan, [blocks]]
Cell(rowspan, colspan, blocks) == [rowspan |-> rowspan, colspan |-> colspan, blocks |-> blocks]

\* A Table's content: the number of column specs, the head rows, the bodies
\* (intermediate head rows, main rows) and the foot rows; a row is the list
\* of its cells.
TableContent(specs, head, bodies, foot) ==
    [specs |-> specs, head |-> head, bodies |-> bodies, foot |-> foot]

TableBody(inter, main) == [inter |-> inter, main |-> main]

NoContent == TableContent(0, <<>>, <<>>, <<>>)

\* A block node {"t": t, "c": ...}; items are the items of a list, each the
\* list of its blocks
Block(t, level, inlines, content) ==
    [t |-> t, level |-> level, inlines |-> inlines, content |-> content, items |-> <<>>]

ListBlock(t, items) == [Block(t, 0, <<>>, NoContent) EXCEPT !.items = items]

HeaderBlock(level, inlines) == Block("Header", level, inlines, NoContent)
ParaBlock(inlines) == Block("Para", 0, inlines, NoContent)
TableBlock(content) == Block("Table", 0, <<>>, content)

\* An hp:tbl with its hp:tc cells, row by row
NoTbl == [id |-> 0, rowCnt |-> 0, colCnt |-> 0, borderFillIDRef |-> 0, cells |-> <<>>]

\* An hp:run: a text run, a line break, a field control, a picture or a
\* table.  id is the id of a fieldBegin or hp:pic, instId the instid of an
\* hp:pic, ref the beginIDRef of a fieldEnd or the binaryItemIDRef of a
\* picture, size where the size of a picture comes from, width and height
\* the size of a picture, pageSetup the page setup convert() put behind the
\* opening tag.
Run(charPrIDRef, kind, text, tbl) ==
    [charPrIDRef |-> charPrIDRef, kind |-> kind, text |-> text, tbl |-> tbl,
     id |-> 0, instId |-> 0, ref |-> 0, size |-> "", width |-> 0, height |-> 0,
     pageSetup |-> ""]

TextRun(text, char_pr_id) == Run(char_pr_id, "t", text, NoTbl)

\* An hp:p
Para(style_id, para_pr_id, column_break, runs) ==
    [styleIDRef |-> style_id, paraPrIDRef |-> para_pr_id,
     columnBreak |-> column_break, runs |-> runs]

\* An hp:tc
Tc(rowAddr, colAddr, rowSpan, colSpan, width, borderFill, subListId, subList) ==
    [rowAddr |-> rowAddr, colAddr |-> colAddr, rowSpan |-> rowSpan, colSpan |-> colSpan,
     width |-> width, borderFillIDRef |-> borderFill, subListId |-> subListId,
     subList |-> subList]

---------------------------------------------------------------------------
(* _process_inlines_to_elems *)

\* new_formats = active_formats.copy(); new_formats.add(f)
AddFormat(active_formats, f) ==
    IF f \in Range(active_formats) THEN active_formats ELSE Append(active_formats, f)

\* The formats of the wrapper alone, those of the enclosing wrappers dropped
InnerFormatsAlone(t, active_formats) ==
    CASE t = "Strong" -> <<"BOLD">>
      [] t = "Emph" -> <<"ITALIC">>
      [] t = "Underline" -> <<"UNDERLINE">>
      [] t = "Superscript" -> <<"SUPERSCRIPT">>
      [] t = "Subscript" -> <<"SUBSCRIPT">>
      [] t = "Link" -> <<"UNDERLINE", "COLOR_BLUE">>

\* The formats under which the children of a wrapper or Link are processed
InnerFormats(t, active_formats) ==
    CASE t = "Strong" -> AddFormat(active_formats, "BOLD")
      [] t = "Emph" -> AddFormat(active_formats, "ITALIC")
      [] t = "Underline" -> AddFormat(active_formats, "UNDERLINE")
      [] t = "Superscript" -> AddFormat(active_formats, "SUPERSCRIPT")
      [] t = "Subscript" -> AddFormat(active_formats, "SUBSCRIPT")
      [] t = "Link" -> AddFormat(AddFormat(active_formats, "UNDERLINE"), "COLOR_BLUE")

\* The run of a Str, Code, Space, SoftBreak or LineBreak under the id cur.ret
\* returned by get_current_id()
LeafRun(cur, item) ==
    [st |-> cur.st, raised |-> "none",
     runs |-> CASE item.t \in {"Str", "Code"} -> <<TextRun(item.text, cur.ret)>>
                [] item.t \in {"Space", "SoftBreak"} -> <<TextRun(" ", cur.ret)>>
                [] item.t = "LineBreak" -> <<Run(cur.ret, "lineBreak", "", NoTbl)>>]

\* _parse_dimension: "" is no attribute, "100" a number the pattern
\* ^([0-9\.]+)([a-z%]+)?$ matches and float() converts, "1.2.3" a text the
\* pattern matches and float() rejects
DimensionRaises(val_str) == val_str = "1.2.3"

\* The two groups of the pattern for the attribute values drawn: the number
\* float() converts and the unit ("" when there is none).  The values drawn
\* are ones whose floating-point products have the integer part of the exact
\* products, which is what the operators below compute.
Magnitude(val_str) ==
    CASE val_str \in {"100", "100%"} -> 100
      [] val_str = "210mm" -> 210
      [] OTHER -> 0

Unit(val_str) ==
    CASE val_str = "100%" -> "%"
      [] val_str = "210mm" -> "mm"
      [] OTHER -> ""

\* int(mm_val * 283.465) in thousandths: a pixel is 25.4 / 96 mm, that is
\* 7200.011 / 96 = 75 + 0.011 / 96 units; a per cent is 1.5 mm
LUnitOf(val, unit) ==
    CASE unit \in {"", "px"} -> 75 * val + (11 * val) \div 96000
      [] unit = "mm" -> (val * 283465) \div 1000
      [] unit = "cm" -> (val * 2834650) \div 1000
      [] unit = "%" -> (val * 3 * 283465) \div 2000
      [] OTHER -> 75 * val + (11 * val) \div 96000

\* _parse_dimension: the size in HWP units, 0 for None (the handler tests the
\* result for truth, which None and 0 fail alike)
ParseDimension(val_str) ==
    IF val_str = "" THEN 0 ELSE LUnitOf(Magnitude(val_str), Unit(val_str))

DimensionParsed(val_str) == ParseDimension(val_str) # 0

\* The files of the input directory os.path.exists finds
ExistingFiles == {"pic.JPG"}

\* im.size of the files
PixelSize(target_url) == [width |-> 800, height |-> 400]

\* MAX_WIDTH_HWP = int(150 * 283.465)
MAX_WIDTH_HWP == (150 * 283465) \div 1000

\* width_hwp and height_hwp before the max width constraint: the attributes
\* when both are given, the size of the file when none is, one attribute and
\* the ratio of the file when one is, 8504 where nothing else is known
ResolvedSize(item) ==
    LET w_parsed == ParseDimension(item.width)
        h_parsed == ParseDimension(item.height)
        image_found == item.text \in ExistingFiles
        px == PixelSize(item.text)
    IN IF w_parsed # 0 /\ h_parsed # 0 THEN [width |-> w_parsed, height |-> h_parsed]
       ELSE IF w_parsed # 0
       THEN [width |-> w_parsed,
             height |-> IF image_found THEN (w_parsed * px.height) \div px.width ELSE 8504]
       ELSE IF ~image_found THEN [width |-> 8504, height |-> 8504]
       ELSE IF h_parsed # 0
       THEN [width |-> (h_parsed * px.width) \div px.height, height |-> 8504]
       ELSE [width |-> LUnitOf(px.width, "px"), height |-> LUnitOf(px.height, "px")]

\* The size as resolved, whatever the width
Unconstrained(size) == size

\* Max Width Constraint: a wider picture is given the maximum width and its
\* height is scaled by MAX_WIDTH_HWP / width_hwp
MaxWidthConstraint(size) ==
    IF size.width > MAX_WIDTH_HWP
    THEN [width |-> MAX_WIDTH_HWP, height |-> (size.height * MAX_WIDTH_HWP) \div size.width]
    ELSE size

\* target_url.lower()
LowerUrl(target_url) ==
    CASE target_url = "pic.JPG" -> "pic.jpg"
      [] OTHER -> target_url

\* The extension of the registry entry: jpg for .jpg and .jpeg, gif, bmp, else png
Ext(target_url) ==
    CASE LowerUrl(target_url) \in {"pic.jpg", "photo.jpeg"} -> "jpg"
      [] LowerUrl(target_url) = "anim.gif" -> "gif"
      [] LowerUrl(target_url) = "scan.bmp" -> "bmp"
      [] OTHER -> "png"

\* binary_item_id = f"img_{timestamp}_{rand}": the two numbers side by side
BinaryItemId(timestamp, rand) == timestamp * 10 + rand

\* The picture run and the registry entry made of the three values drawn: the
\* binary item id and the pic id from the clock and the first random number,
\* the instid from the second random number
PictureOf(st, item, char_pr_id, timestamp, rand, inst_id) ==
    [st |-> [st EXCEPT !.images =
                Append(@, [id |-> BinaryItemId(timestamp, rand), path |-> item.text,
                           ext |-> Ext(item.text)])],
     raised |-> "none",
     runs |-> <<[Run(char_pr_id, "pic", item.text, NoTbl) EXCEPT
                    !.id = timestamp + rand, !.instId = inst_id,
                    !.ref = BinaryItemId(timestamp, rand),
                    !.width = MaxWidthConstraint(ResolvedSize(item)).width,
                    !.height = MaxWidthConstraint(ResolvedSize(item)).height,
                    !.size = IF DimensionParsed(item.width) THEN "attribute"
                             ELSE IF item.text \in ExistingFiles THEN "file"
                             ELSE "default"]>>]

InstIdDrawn(first, second, item, char_pr_id, third) ==
    PictureOf(third.st, item, char_pr_id, first.ret, second.ret, third.ret)

RandDrawn(first, item, char_pr_id, second) ==
    InstIdDrawn(first, second, item, char_pr_id, GenId(second.st))

BinaryIdDrawn(first, item, char_pr_id) ==
    RandDrawn(first, item, char_pr_id, GenId(first.st))

\* _handle_image_elem under the id cur.ret returned by get_current_id()
HandleImageElem(cur, item) ==
    IF DimensionRaises(item.width) \/ DimensionRaises(item.height)
    THEN [st |-> cur.st, raised |-> "ValueError", runs |-> <<>>]
    ELSE BinaryIdDrawn(GenId(cur.st), item, cur.ret)

\* The runs of a Link: the field begin, the runs of its children and the
\* field end naming the field begun last
LinkWrapped(fid, item, inner) ==
    IF inner.raised # "none" THEN inner
    ELSE [st |-> inner.st, raised |-> "none",
          runs |-> <<[Run(0, "fieldBegin", item.text, NoTbl) EXCEPT !.id = fid]>>
                   \o inner.runs
                   \o <<[Run(0, "fieldEnd", "", NoTbl) EXCEPT
                            !.ref = inner.st.last_field_id]>>]

RECURSIVE ProcessInlinesToElems(_, _, _, _)

\* _create_field_begin_elem drew the field id: self.last_field_id = fid
LinkOpened(fid, item, base_char_pr_id, active_formats) ==
    LinkWrapped(fid.ret, item,
                ProcessInlinesToElems([fid.st EXCEPT !.last_field_id = fid.ret], item.c,
                                      base_char_pr_id, InnerFormats("Link", active_formats)))

\* One iteration of the loop over the inlines
ProcessInline(st, item, base_char_pr_id, active_formats) ==
    IF item.t \in {"Str", "Code", "Space", "SoftBreak", "LineBreak"}
    THEN LeafRun(GetCharPrId(st, base_char_pr_id, active_formats), item)
    ELSE IF item.t \in {"Strong", "Emph", "Underline", "Superscript", "Subscript"}
    THEN ProcessInlinesToElems(st, item.c, base_char_pr_id,
                               InnerFormats(item.t, active_formats))
    ELSE IF item.t = "Link"
    THEN LinkOpened(GenId(st), item, base_char_pr_id, active_formats)
    ELSE IF item.t = "Image"
    THEN HandleImageElem(GetCharPrId(st, base_char_pr_id, active_formats), item)
    ELSE [st |-> st, raised |-> "none", runs |-> <<>>]

InlinesAfter(one, rest) ==
    IF rest.raised # "none" THEN rest
    ELSE [st |-> rest.st, raised |-> "none", runs |-> one.runs \o rest.runs]

RestOfInlines(one, inlines, base_char_pr_id, active_formats) ==
    IF one.raised # "none" THEN one
    ELSE InlinesAfter(one, ProcessInlinesToElems(one.st, inlines, base_char_pr_id,
                                                 active_formats))

\* [st, raised, runs]: the state left behind and the runs appended to the
\* parent.  Note inlines are not drawn by the model.
ProcessInlinesToElems(st, inlines, base_char_pr_id, active_formats) ==
    IF inlines = <<>> THEN [st |-> st, raised |-> "none", runs |-> <<>>]
    ELSE RestOfInlines(ProcessInline(st, Head(inlines), base_char_pr_id, active_formats),
                       Tail(inlines), base_char_pr_id, active_formats)

---------------------------------------------------------------------------
(* _handle_header, _handle_para *)

PlaceholderName(level) ==
    CASE level = 1 -> "H1" [] level = 2 -> "H2" [] level = 3 -> "H3"
      [] level = 4 -> "H4" [] level = 5 -> "H5" [] OTHER -> "H6"

\* [st, raised, elems]: one paragraph with the runs of its inlines
Raised(st, class) == [st |-> st, raised |-> class, elems |-> <<>>]

ParaOf(style_id, para_pr_id, column_break, done) ==
    IF done.raised # "none" THEN Raised(done.st, done.raised)
    ELSE [st |-> done.st, raised |-> "none",
          elems |-> <<Para(style_id, para_pr_id, column_break, done.runs)>>]

\* The style, paraPr and charPr ids of a header without placeholder:
\* outline_style_ids[level] when level is a key, else the level itself; the
\* paraPr and charPr of that style when the header has it
FallbackHeaderIds(root, level) ==
    LET style_id == IF level \in DOMAIN outline_style_ids
                    THEN outline_style_ids[level] ELSE level
        styleIdx == FindIdx(root.styles, style_id)
    IN [style_id |-> style_id,
        para_pr_id |-> IF root.parsed /\ styleIdx # 0
                       THEN root.styles[styleIdx].paraPrIDRef ELSE normal_para_pr_id,
        char_pr_id |-> IF root.parsed /\ styleIdx # 0
                       THEN root.styles[styleIdx].charPrIDRef ELSE 0]

\* The ids of a header: those of the H{level} placeholder when the template
\* has it, the fallback ids otherwise
HeaderIds(root, level) ==
    IF PlaceholderName(level) \in DOMAIN placeholder_styles
    THEN [style_id |-> normal_style_id,
          para_pr_id |-> placeholder_styles[PlaceholderName(level)].paraPrIDRef,
          char_pr_id |-> placeholder_styles[PlaceholderName(level)].charPrIDRef]
    ELSE FallbackHeaderIds(root, level)

\* A LineBreak at the start asks for a column break and is removed
ColumnBreakVal(inlines) ==
    IF inlines # <<>> /\ Head(inlines).t = "LineBreak" THEN 1 ELSE 0

AfterColumnBreak(inlines) ==
    IF ColumnBreakVal(inlines) = 1 THEN Tail(inlines) ELSE inlines

\* A header of an unmapped level emitted with the fallback ids
HandleHeaderWithoutCheck(st, content) ==
    ParaOf(HeaderIds(st.header_root, content.level).style_id,
           HeaderIds(st.header_root, content.level).para_pr_id,
           ColumnBreakVal(content.inlines),
           ProcessInlinesToElems(st, AfterColumnBreak(content.inlines),
                                 HeaderIds(st.header_root, content.level).char_pr_id,
                                 <<>>))

\* The paragraph emitted for Header content, or the exception raised
HandleHeader(st, content) ==
    IF /\ PlaceholderName(content.level) \notin DOMAIN placeholder_styles
       /\ (content.level - 1) \notin DOMAIN dynamic_style_map
    THEN Raised(st, "ValueError")
    ELSE ParaOf(HeaderIds(st.header_root, content.level).style_id,
                HeaderIds(st.header_root, content.level).para_pr_id,
                ColumnBreakVal(content.inlines),
                ProcessInlinesToElems(st, AfterColumnBreak(content.inlines),
                                      HeaderIds(st.header_root, content.level).char_pr_id,
                                      <<>>))

\* The paraPr and charPr ids of a body paragraph: those of the BODY
\* placeholder when the template has it, else the normal paraPr and the
\* charPr of the normal style
BodyIds(root) ==
    LET styleIdx == FindIdx(root.styles, normal_style_id)
    IN IF "BODY" \in DOMAIN placeholder_styles
       THEN [para_pr_id |-> placeholder_styles["BODY"].paraPrIDRef,
             char_pr_id |-> placeholder_styles["BODY"].charPrIDRef]
       ELSE [para_pr_id |-> normal_para_pr_id,
             char_pr_id |-> IF root.parsed /\ styleIdx # 0
                            THEN root.styles[styleIdx].charPrIDRef ELSE 0]

\* _handle_para and _handle_plain
HandlePara(st, inlines) ==
    ParaOf(normal_style_id, BodyIds(st.header_root).para_pr_id, 0,
           ProcessInlinesToElems(st, inlines, BodyIds(st.header_root).char_pr_id, <<>>))

---------------------------------------------------------------------------
(* _handle_table_elem, _process_blocks *)

TOTAL_TABLE_WIDTH == 45000

\* The hard-coded borderFillIDRef of hp:tbl
TableBorderFillRef == 3

RECURSIVE FlattenBodies(_)
FlattenBodies(table_bodies) ==
    IF table_bodies = <<>> THEN <<>>
    ELSE Head(table_bodies).inter \o Head(table_bodies).main \o FlattenBodies(Tail(table_bodies))

\* all_rows: head rows, then each body's intermediate head rows and main rows,
\* then the foot rows
AllRows(content) == content.head \o FlattenBodies(content.bodies) \o content.foot

\* The shares rounded up instead of truncated
ColWidthsRoundedUp(col_cnt) ==
    [i \in 1..col_cnt |-> (TOTAL_TABLE_WIDTH + col_cnt - 1) \div col_cnt]

\* col_widths = [int(TOTAL_TABLE_WIDTH / col_cnt) for _ in specs]
ColWidths(col_cnt) == [i \in 1..col_cnt |-> TOTAL_TABLE_WIDTH \div col_cnt]

\* The cursor left where it is: the cell is placed without looking at occupied_cells
StayAtCol(occupied_cells, curr_row_addr, curr_col_addr) == curr_col_addr

\* while (curr_row_addr, curr_col_addr) in occupied_cells: curr_col_addr += 1
RECURSIVE NextFreeCol(_, _, _)
NextFreeCol(occupied_cells, curr_row_addr, curr_col_addr) ==
    IF <<curr_row_addr, curr_col_addr>> \in occupied_cells
    THEN NextFreeCol(occupied_cells, curr_row_addr, curr_col_addr + 1)
    ELSE curr_col_addr

\* The coordinates a cell marks as occupied
MarkedCells(curr_row_addr, actual_col, rowspan, colspan) ==
    {<<curr_row_addr + r, actual_col + c>> : r \in 0..(rowspan - 1), c \in 0..(colspan - 1)}

\* sum(col_widths[actual_col + i] if actual_col + i < len(col_widths)
\*     else int(TOTAL_TABLE_WIDTH / col_cnt) for i in range(colspan));
\* the columns of col_widths are numbered from 0 in the code, from 1 here
RECURSIVE CellWidth(_, _, _, _)
CellWidth(col_widths, actual_col, colspan, col_cnt) ==
    IF colspan = 0 THEN 0
    ELSE CellWidth(col_widths, actual_col, colspan - 1, col_cnt)
         + (IF actual_col + (colspan - 1) < Len(col_widths)
            THEN col_widths[actual_col + (colspan - 1) + 1]
            ELSE TOTAL_TABLE_WIDTH \div col_cnt)

\* The width expression divides by col_cnt for a column beyond col_widths
CellWidthRaises(actual_col, colspan, col_cnt) ==
    col_cnt = 0 /\ colspan > 0

RECURSIVE ProcessBlocks(_, _)
RECURSIVE LayoutCells(_, _, _, _)

\* The layout state acc = [st, raised, occupied_cells, curr_col_addr, tcs]
\* after an exception of the given class
LayoutRaised(acc, st, class, marked) ==
    [acc EXCEPT !.st = st, !.raised = class, !.occupied_cells = acc.occupied_cells \cup marked]

\* The hp:tc appended for a cell and the cursor moved behind it
CellPlaced(acc, cell, actual_col, curr_row_addr, col_cnt, content) ==
    [st |-> content.st, raised |-> "none",
     occupied_cells |-> acc.occupied_cells
                        \cup MarkedCells(curr_row_addr, actual_col, cell.rowspan, cell.colspan),
     curr_col_addr |-> actual_col + cell.colspan,
     tcs |-> Append(acc.tcs,
                    Tc(curr_row_addr, actual_col, cell.rowspan, cell.colspan,
                       CellWidth(ColWidths(col_cnt), actual_col, cell.colspan, col_cnt),
                       table_border_fill_id, GenId(acc.st).ret, content.elems))]

\* The cell's blocks are processed; the loop goes on unless they raised
CellContentDone(acc, cell, actual_col, curr_row_addr, col_cnt, content, rest) ==
    IF content.raised # "none"
    THEN LayoutRaised(acc, content.st, content.raised,
                      MarkedCells(curr_row_addr, actual_col, cell.rowspan, cell.colspan))
    ELSE LayoutCells(CellPlaced(acc, cell, actual_col, curr_row_addr, col_cnt, content),
                     rest, curr_row_addr, col_cnt)

\* One iteration of the loop over the cells of a row, at the free column
\* found: the width, the sublist id drawn, then the blocks of the cell
PlaceCell(acc, cell, actual_col, curr_row_addr, col_cnt, rest) ==
    IF CellWidthRaises(actual_col, cell.colspan, col_cnt)
    THEN LayoutRaised(acc, acc.st, "ZeroDivisionError",
                      MarkedCells(curr_row_addr, actual_col, cell.rowspan, cell.colspan))
    ELSE CellContentDone(acc, cell, actual_col, curr_row_addr, col_cnt,
                         ProcessBlocks(GenId(acc.st).st, cell.blocks), rest)

\* The inner loop over the cells of one row
LayoutCells(acc, row_cells, curr_row_addr, col_cnt) ==
    IF row_cells = <<>> \/ acc.raised # "none" THEN acc
    ELSE PlaceCell(acc, Head(row_cells),
                   NextFreeCol(acc.occupied_cells, curr_row_addr, acc.curr_col_addr),
                   curr_row_addr, col_cnt, Tail(row_cells))

\* The outer loop over all_rows: curr_col_addr restarts at 0 in every row
RECURSIVE LayoutRows(_, _, _, _)
LayoutRows(acc, rows, curr_row_addr, col_cnt) ==
    IF rows = <<>> \/ acc.raised # "none" THEN acc
    ELSE LayoutRows(LayoutCells([acc EXCEPT !.curr_col_addr = 0], Head(rows),
                                curr_row_addr, col_cnt),
                    Tail(rows), curr_row_addr + 1, col_cnt)

\* The paragraph holding the table with the cells laid out
TableLaidOut(tbl_id, laid, row_cnt, col_cnt) ==
    IF laid.raised # "none" THEN Raised(laid.st, laid.raised)
    ELSE [st |-> laid.st, raised |-> "none",
          elems |-> <<Para(normal_style_id, normal_para_pr_id, 0,
                           <<Run(0, "tbl", "",
                                 [id |-> tbl_id, rowCnt |-> row_cnt, colCnt |-> col_cnt,
                                  borderFillIDRef |-> TableBorderFillRef,
                                  cells |-> laid.tcs])>>)>>]

\* [st, raised, elems]: the paragraph holding the table, nothing for a table
\* without rows
HandleTableElem(st, content) ==
    IF AllRows(content) = <<>> THEN [st |-> st, raised |-> "none", elems |-> <<>>]
    ELSE TableLaidOut(GenId(st).ret,
                      LayoutRows([st |-> GenId(st).st, raised |-> "none",
                                  occupied_cells |-> {}, curr_col_addr |-> 0, tcs |-> <<>>],
                                 AllRows(content), 0, content.specs),
                      Len(AllRows(content)), content.specs)

\* One numbering shared by the lists of a conversion: a second list takes
\* the numbering the first one made
CreateNumberingShared(st, type) ==
    IF st.header_root.numberings # <<>>
    THEN [ret |-> MaxIdOf(st.header_root.numberings), st |-> st]
    ELSE [ret |-> 1,
          st |-> [st EXCEPT !.header_root.numberings = <<[id |-> 1, type |-> type]>>,
                            !.header_root.hasNumberings = TRUE]]

\* _create_numbering: a numbering of the next free id is appended to
\* hh:numberings, which is created when the header has none
CreateNumbering(st, type) ==
    [ret |-> MaxIdOf(st.header_root.numberings) + 1,
     st |-> [st EXCEPT !.header_root.numberings =
                           Append(@, [id |-> MaxIdOf(st.header_root.numberings) + 1,
                                      type |-> type]),
                       !.header_root.hasNumberings = TRUE]]

\* _get_list_para_pr: a copy of the normal paraPr under the next free id,
\* its heading of type NUMBER referring to the numbering; the normal paraPr
\* id itself when the header has no such record
GetListParaPr(st, num_id, level) ==
    IF FindIdx(st.header_root.paraPrs, normal_para_pr_id) = 0
    THEN [ret |-> normal_para_pr_id, st |-> st]
    ELSE [ret |-> st.max_para_pr_id + 1,
          st |-> [st EXCEPT !.max_para_pr_id = @ + 1,
                            !.header_root.paraPrs =
                                IF st.header_root.hasParaProperties
                                THEN Append(@, [id |-> st.max_para_pr_id + 1, type |-> "NUMBER",
                                                level |-> level, idRef |-> num_id])
                                ELSE @]]

\* for item_blocks in content: for block in item_blocks
RECURSIVE FlattenItems(_)
FlattenItems(items) ==
    IF items = <<>> THEN <<>> ELSE Head(items) \o FlattenItems(Tail(items))

RECURSIVE ListLoop(_, _, _, _)
RECURSIVE HandleList(_, _, _)

\* One block of a list item: its paraPr is made before the type of the block
\* is looked at
ListItemBlock(pr, block, level) ==
    CASE block.t \in {"Para", "Plain"} ->
             ParaOf(normal_style_id, pr.ret, 0,
                    ProcessInlinesToElems(pr.st, block.inlines, 0, <<>>))
      [] block.t \in {"BulletList", "OrderedList"} -> HandleList(pr.st, block, level + 1)
      [] OTHER -> ProcessBlocks(pr.st, <<block>>)

ListAfter(one, rest) ==
    IF rest.raised # "none" THEN Raised(rest.st, rest.raised)
    ELSE [st |-> rest.st, raised |-> "none", elems |-> one.elems \o rest.elems]

ListRest(one, num_id, blocks, level) ==
    IF one.raised # "none" THEN Raised(one.st, one.raised)
    ELSE ListAfter(one, ListLoop(one.st, num_id, blocks, level))

\* The loop over the blocks of the items of one list
ListLoop(st, num_id, blocks, level) ==
    IF blocks = <<>> THEN [st |-> st, raised |-> "none", elems |-> <<>>]
    ELSE ListRest(ListItemBlock(GetListParaPr(st, num_id, level), Head(blocks), level),
                  num_id, Tail(blocks), level)

ListNumbered(num, items, level) == ListLoop(num.st, num.ret, FlattenItems(items), level)

\* _handle_bullet_list and _handle_ordered_list: one new numbering per list;
\* without a parsed header the numbering cannot be made
HandleList(st, block, level) ==
    IF ~st.header_root.parsed THEN Raised(st, "AttributeError")
    ELSE ListNumbered(CreateNumbering(st, IF block.t = "OrderedList" THEN "ORDERED"
                                        ELSE "BULLET"),
                      block.items, level)

\* _handle_code_block
HandleCodeBlock(st, code) ==
    [st |-> st, raised |-> "none",
     elems |-> <<Para(normal_style_id, normal_para_pr_id, 0, <<TextRun(code, 0)>>)>>]

\* One iteration of the loop of _process_blocks
HandleBlock(st, block) ==
    CASE block.t = "Header" -> HandleHeader(st, block)
      [] block.t \in {"Para", "Plain"} -> HandlePara(st, block.inlines)
      [] block.t = "CodeBlock" -> HandleCodeBlock(st, "code")
      [] block.t = "Table" -> HandleTableElem(st, block.content)
      [] block.t \in {"BulletList", "OrderedList"} -> HandleList(st, block, 0)
      [] OTHER -> [st |-> st, raised |-> "none", elems |-> <<>>]

\* elems: the paragraphs joined; parts: the paragraphs of each block
BlocksAfter(one, rest) ==
    IF rest.raised # "none" THEN Raised(rest.st, rest.raised)
    ELSE [st |-> rest.st, raised |-> "none", elems |-> one.elems \o rest.elems,
          parts |-> <<one.elems>> \o rest.parts]

RestOfBlocks(one, blocks) ==
    IF one.raised # "none" THEN one
    ELSE BlocksAfter(one, ProcessBlocks(one.st, blocks))

ProcessBlocks(st, blocks) ==
    IF blocks = <<>> THEN [st |-> st, raised |-> "none", elems |-> <<>>, parts |-> <<>>]
    ELSE RestOfBlocks(HandleBlock(st, Head(blocks)), Tail(blocks))

---------------------------------------------------------------------------
(* Direct use of the variant cache: a converter is constructed from a      *)
(* template and _get_char_pr_id is called on it.                           *)

\* the formats and base ids the direct calls draw from
CallFormats == {"BOLD", "SUPERSCRIPT", "SUBSCRIPT"}
CallBaseIds == {1, 2}

\* the insertion orders of the format sets of at most two elements
FormatOrders ==
    {s \in SeqsUpTo(CallFormats, 2) : \A i, j \in DOMAIN s : s[i] = s[j] => i = j}

CleanCharPrs == <<CharPr(0, {}, "NONE"), CharPr(1, {"subscript"}, "absent")>>

ResolveHeaders ==
    { Header(CleanCharPrs, TRUE, <<>>, <<>>, <<1, 2>>),
      Header(CleanCharPrs, FALSE, <<>>, <<>>, <<1, 2>>),
      Header(<<CharPr(1, {"supscript"}, "absent")>>, TRUE, <<>>, <<>>, <<1>>),
      Header(<<CharPr(1, {"supscript", "subscript"}, "absent")>>, TRUE, <<>>, <<>>, <<1>>),
      NoHeader }


\* An absent or present document tree
NoAst == [present |-> FALSE, blocks |-> <<>>]
Ast(blocks) == [present |-> TRUE, blocks |-> blocks]

\* A reference path: "missing", "not_zip" or an "archive" with its header.xml
\* and section0.xml
Reference(kind, h, sec) == [kind |-> kind, header_xml |-> h, section_xml |-> sec]

\* convert_to_hwpx not called
NoEnv == [reference |-> Reference("none", NoHeader, <<>>), json_ast |-> NoAst]

IdleStatic ==
    /\ pc = "object"
    /\ env = NoEnv
    /\ output_file = "absent"

\* The values the clock and the random source return
IdValues == {1, 2}
Entropies == [1..MaxDraws -> IdValues]
SomeEntropy == [i \in 1..MaxDraws |-> 1]

\* No earlier instance, no helper method called
NoRun == [done |-> FALSE, body |-> <<>>, header |-> NoRoot, images |-> <<>>]
NoCall == [fn |-> "none", args |-> <<>>, ret |-> "none"]

\* Any clock and random source
AnyEntropy ==
    /\ entropy \in Entropies
    /\ ast = NoAst
    /\ earlier = NoRun
    /\ returned = NoCall

\* No tree handed over, a clock and a random source of which the outcome
\* does not depend
IdleEnv ==
    /\ entropy = SomeEntropy
    /\ ast = NoAst
    /\ earlier = NoRun
    /\ returned = NoCall

Unconstructed ==
    /\ phase = "new"
    /\ error = "none"
    /\ header_root = NoRoot
    /\ max_char_pr_id = 0
    /\ char_pr_cache = EmptyMap
    /\ normal_style_id = 0
    /\ normal_para_pr_id = 1
    /\ dynamic_style_map = EmptyMap
    /\ outline_style_ids = EmptyMap
    /\ placeholder_styles = EmptyMap
    /\ table_border_fill_id = 0
    /\ max_para_pr_id = 0
    /\ images = <<>>
    /\ last_field_id = 0
    /\ drawn = 0
    /\ body = <<>>
    /\ visited = <<>>
    /\ calls = <<>>
    /\ table = NoContent
    /\ cells = <<>>

InitResolve ==
    /\ header_xml \in ResolveHeaders
    /\ section_xml = <<>>
    /\ Unconstructed
    /\ IdleStatic
    /\ IdleEnv

\* The call returned r = [ret, st]
Resolved(r) ==
    /\ StateLeft(r.st)

\* One call converter._get_char_pr_id(base_id, active_formats)
Resolve ==
    /\ phase = "ready"
    /\ Len(calls) < MaxCalls
    /\ \E base_id \in CallBaseIds, active_formats \in FormatOrders :
          Resolved(GetCharPrId(CurrentState, base_id, active_formats))
    /\ UNCHANGED <<templateVars, phase, error, normal_style_id, normal_para_pr_id,
                   dynamic_style_map, outline_style_ids, placeholder_styles,
                   table_border_fill_id, body, visited, tableVars, staticVars, envVars>>

NextResolve == Construct \/ Resolve

SpecResolve == InitResolve /\ [][NextResolve]_vars

\* C1: calls to _get_char_pr_id with the same base id and format sets that are
\* equal as sets (whatever their insertion order) return the same id, and at
\* most one of them appends a charPr record to the style table.
C1_IdempotentCache ==
    \A i, j \in DOMAIN calls :
        (calls[i].base = calls[j].base
         /\ FrozenSet(calls[i].formats) = FrozenSet(calls[j].formats))
        => /\ calls[i].ret = calls[j].ret
           /\ (calls[i].appended /\ calls[j].appended => i = j)

\* C12: a call of _get_char_pr_id with an empty format set returns the base
\* id it was given and leaves the style table, the variant cache and the
\* next-id counter as they were.
C12_EmptyFormatsReturnBase ==
    [][(Len(calls') = Len(calls) + 1 /\ calls'[Len(calls')].formats = <<>>)
          => /\ calls'[Len(calls')].ret = calls'[Len(calls')].base
             /\ UNCHANGED <<header_root, char_pr_cache, max_char_pr_id>>]_vars

\* A call with an empty format set was made after a call that appended a
\* variant, on a converter with a parsed header
C12_Witness ==
    \E i, j \in DOMAIN calls :
        /\ i < j
        /\ calls[i].appended
        /\ calls[j].formats = <<>>
        /\ char_pr_cache # EmptyMap

ScriptFormats == {"SUPERSCRIPT", "SUBSCRIPT"}
ScriptMarks == {"supscript", "subscript"}

\* The charPr records appended to the template's, in the order of appending
Materialized == SubSeq(header_root.charPrs, Len(header_xml.charPrs) + 1,
                       Len(header_root.charPrs))

\* The records a call appended: those of the id it returned
MaterializedBy(call) ==
    {k \in DOMAIN Materialized : call.appended /\ Materialized[k].id = call.ret}

\* C23: a charPr record materialized for a format set that contains
\* SUPERSCRIPT or SUBSCRIPT carries at most one of the supscript and subscript
\* marks, whatever the base record carried and also when both flags are in
\* the set, and the mark it carries is one the set asked for.
C23_OneScriptMark ==
    \A i \in DOMAIN calls :
        FrozenSet(calls[i].formats) \cap ScriptFormats # {} =>
            \A k \in MaterializedBy(calls[i]) :
                /\ Cardinality(Materialized[k].marks \cap ScriptMarks) <= 1
                /\ "supscript" \in Materialized[k].marks
                      => "SUPERSCRIPT" \in FrozenSet(calls[i].formats)
                /\ "subscript" \in Materialized[k].marks
                      => "SUBSCRIPT" \in FrozenSet(calls[i].formats)

\* A record materialized for both flags from a base that carried both marks:
\* it carries the supscript mark alone
C23_Witness ==
    \E i \in DOMAIN calls :
        /\ FrozenSet(calls[i].formats) = ScriptFormats
        /\ calls[i].base = 1
        /\ \E b \in DOMAIN header_xml.charPrs :
               header_xml.charPrs[b].id = 1 /\ header_xml.charPrs[b].marks = ScriptMarks
        /\ \E k \in MaterializedBy(calls[i]) : Materialized[k].marks = {"supscript"}

\* The charPr ids of the table are pairwise distinct and the records of the
\* template are where and what they were
CharPrTableSound ==
    phase = "ready" =>
        /\ \A i, j \in DOMAIN header_root.charPrs :
               header_root.charPrs[i].id = header_root.charPrs[j].id => i = j
        /\ Len(header_root.charPrs) >= Len(header_xml.charPrs)
        /\ SubSeq(header_root.charPrs, 1, Len(header_xml.charPrs)) = header_xml.charPrs

\* A call of _get_char_pr_id on the constructed converter changed the table:
\* one record was appended behind the records that were there, which are
\* left as they were, and its id is greater than the id of each of them
AppendedAboveAll ==
    (phase = "ready" /\ header_root'.charPrs # header_root.charPrs) =>
        /\ Len(header_root'.charPrs) = Len(header_root.charPrs) + 1
        /\ SubSeq(header_root'.charPrs, 1, Len(header_root.charPrs)) = header_root.charPrs
        /\ \A i \in DOMAIN header_root.charPrs :
               header_root'.charPrs[Len(header_root'.charPrs)].id > header_root.charPrs[i].id

\* C25: every charPr record _get_char_pr_id appends gets an id strictly
\* greater than every charPr id in the table at that moment, so that after
\* any sequence of calls the charPr ids of the table are pairwise distinct and
\* no record of the template was overwritten or modified.
C25_FreshCharPrIds == [][AppendedAboveAll]_vars /\ []CharPrTableSound

\* Two records were appended behind the two records of a template
C25_Witness ==
    /\ phase = "ready"
    /\ Len(header_xml.charPrs) = 2
    /\ Len(Materialized) = 2
    /\ Materialized[1].id < Materialized[2].id
    /\ \A i \in DOMAIN header_xml.charPrs : header_xml.charPrs[i].id < Materialized[1].id

---------------------------------------------------------------------------
(* Table layout: _handle_table_elem called on a constructed converter *)

CellSpans == {1, 2}

\* The rows handed to the layout: up to two cells, each with its own spans and
\* no content
TableRows ==
    UNION {[1..k -> {Cell(rs, cs, <<>>) : rs \in CellSpans, cs \in CellSpans}] : k \in 0..2}

\* The first h rows are the table head, the others the main rows of one body
SplitTable(specs, rows, h) ==
    TableContent(specs, SubSeq(rows, 1, h),
                 <<TableBody(<<>>, SubSeq(rows, h + 1, Len(rows)))>>, <<>>)

TableHeader == Header(CleanCharPrs, TRUE, <<>>, <<Style(0, 0, 0)>>, <<1, 2>>)

InitTable ==
    /\ header_xml = TableHeader
    /\ section_xml = <<>>
    /\ Unconstructed
    /\ IdleStatic
    /\ IdleEnv

\* The emitted hp:tc cells of the paragraph returned for a table
EmittedCells(elems) ==
    IF elems = <<>> THEN <<>> ELSE elems[1].runs[1].tbl.cells

\* The handler returned r = [st, raised, elems] for the table
TableReturned(content, r) ==
    /\ table' = content
    /\ visited' = <<TableBlock(content)>>
    /\ cells' = EmittedCells(r.elems)
    /\ body' = IF r.raised = "none" THEN <<r.elems>> ELSE <<>>
    /\ error' = r.raised
    /\ StateLeft(r.st)

\* One call converter._handle_table_elem(content)
LayoutTable ==
    /\ phase = "ready"
    /\ visited = <<>>
    /\ \E specs \in (0..MaxSpecs) \cup {ManySpecs}, rows \in SeqsUpTo(TableRows, MaxRows),
          h \in 0..1 :
         /\ h <= Len(rows)
         /\ TableReturned(SplitTable(specs, rows, h),
                          HandleTableElem(CurrentState, SplitTable(specs, rows, h)))
    /\ UNCHANGED <<templateVars, phase, normal_style_id, normal_para_pr_id,
                   dynamic_style_map, outline_style_ids, placeholder_styles,
                   table_border_fill_id, staticVars, envVars>>

NextTable == Construct \/ LayoutTable

SpecTable == InitTable /\ [][NextTable]_vars

\* The coordinates an emitted cell covers: its address extended by its spans
Covered(tc) ==
    {<<tc.rowAddr + r, tc.colAddr + c>> : r \in 0..(tc.rowSpan - 1), c \in 0..(tc.colSpan - 1)}

\* The emitted cells covering a coordinate
Covering(rc) == {i \in DOMAIN cells : rc \in Covered(cells[i])}

\* C3: in table layout, for any rows and any rowspan/colspan values, the
\* coordinate sets covered by two distinct emitted cells are disjoint.
C3_CellsDisjoint ==
    \A i, j \in DOMAIN cells : i # j => Covered(cells[i]) \cap Covered(cells[j]) = {}

\* Every declared column of every row is covered by exactly one emitted cell,
\* and no emitted cell reaches beyond the last declared column
ExactCover ==
    /\ \A r \in 0..(Len(AllRows(table)) - 1), c \in 0..(table.specs - 1) :
           Cardinality(Covering(<<r, c>>)) = 1
    /\ \A i \in DOMAIN cells : cells[i].colAddr + cells[i].colSpan <= table.specs

ColumnChoices(n, col_cnt) ==
    {p \in [1..n -> 0..(col_cnt - 1)] : \A i \in 1..(n - 1) : p[i] < p[i + 1]}

\* A table is a grid when its cells can be given column addresses, increasing
\* from left to right within each row, such that the rowspan x colspan
\* rectangles of the cells cover every (row, declared column) coordinate
\* exactly once and none reaches beyond the last row or the last column.
RECURSIVE GridFrom(_, _, _, _, _)
GridFrom(taken, rows, r, row_cnt, col_cnt) ==
    IF rows = <<>> THEN TRUE
    ELSE LET row == Head(rows)
             Rect(p, i) == MarkedCells(r, p[i], row[i].rowspan, row[i].colspan)
         IN \E p \in ColumnChoices(Len(row), col_cnt) :
              /\ \A i \in DOMAIN row :
                    /\ p[i] + row[i].colspan <= col_cnt
                    /\ r + row[i].rowspan <= row_cnt
                    /\ Rect(p, i) \cap taken = {}
              /\ \A i, j \in DOMAIN row : i # j => Rect(p, i) \cap Rect(p, j) = {}
              /\ LET now == taken \cup UNION {Rect(p, i) : i \in DOMAIN row}
                 IN /\ \A c \in 0..(col_cnt - 1) : <<r, c>> \in now
                    /\ GridFrom(now, Tail(rows), r + 1, row_cnt, col_cnt)

IsGrid(content) ==
    GridFrom({}, AllRows(content), 0, Len(AllRows(content)), content.specs)

RECURSIVE SpannedWidth(_, _, _)
SpannedWidth(c, n, specs) ==
    IF n = 0 THEN 0
    ELSE (IF c < specs THEN ColWidths(specs)[c + 1] ELSE TOTAL_TABLE_WIDTH \div specs)
         + SpannedWidth(c + 1, n - 1, specs)

\* C21: the column widths are the total table width divided evenly, truncated
\* to an integer, across the declared column specs; the width of each emitted
\* cell is the sum of the widths of the columns it spans from its column on,
\* the even share standing for a column beyond the declared ones; the widths
\* of the declared columns do not sum to more than the total table width.
C21_CellWidthsEvenShares ==
    cells # <<>> =>
        /\ \A c \in 1..table.specs :
               /\ ColWidths(table.specs)[c] * table.specs <= TOTAL_TABLE_WIDTH
               /\ (ColWidths(table.specs)[c] + 1) * table.specs > TOTAL_TABLE_WIDTH
        /\ \A i \in DOMAIN cells :
               /\ cells[i].width = SpannedWidth(cells[i].colAddr, cells[i].colSpan, table.specs)
               /\ cells[i].width = cells[i].colSpan * (TOTAL_TABLE_WIDTH \div table.specs)
        /\ SpannedWidth(0, table.specs, table.specs) <= TOTAL_TABLE_WIDTH

\* A cell spanning two columns of a table whose column count does not divide
\* the total width: its width is twice the truncated share
C21_Witness ==
    /\ table.specs = ManySpecs
    /\ \E i \in DOMAIN cells :
           /\ cells[i].colSpan = 2
           /\ cells[i].width = 2 * (TOTAL_TABLE_WIDTH \div ManySpecs)
           /\ cells[i].width * ManySpecs < 2 * TOTAL_TABLE_WIDTH

\* The <<row index, rowspan, colspan>> of the cells of the rows, row by row,
\* the first row having the index r
RECURSIVE CellsOfRows(_, _)
CellsOfRows(rows, r) ==
    IF rows = <<>> THEN <<>>
    ELSE [k \in DOMAIN Head(rows) |-> <<r, Head(rows)[k].rowspan, Head(rows)[k].colspan>>]
         \o CellsOfRows(Tail(rows), r + 1)

\* C16: for a Table block with at least one row the handler emits exactly one
\* table node whose rowCnt is the number of flattened rows (head, the bodies'
\* intermediate and main rows, foot) and whose colCnt is the number of column
\* specs, and each emitted cell carries the index of its row as rowAddr and
\* its own rowspan and colspan.
C16_TableNodeCounts ==
    (visited # <<>> /\ AllRows(table) # <<>>)
        => /\ error = "none"
           /\ Len(body) = 1 /\ Len(body[1]) = 1 /\ Len(body[1][1].runs) = 1
           /\ body[1][1].runs[1].kind = "tbl"
           /\ body[1][1].runs[1].tbl.rowCnt = Len(AllRows(table))
           /\ body[1][1].runs[1].tbl.colCnt = table.specs
           /\ [i \in DOMAIN body[1][1].runs[1].tbl.cells |->
                  <<body[1][1].runs[1].tbl.cells[i].rowAddr,
                    body[1][1].runs[1].tbl.cells[i].rowSpan,
                    body[1][1].runs[1].tbl.cells[i].colSpan>>]
              = CellsOfRows(AllRows(table), 0)

\* C29: the table layout completes and returns a table element for every
\* Table with at least one row, also when the list of column specs is empty
\* or shorter than the columns the cells occupy; a table without rows emits
\* nothing and raises nothing.
C29_TableLayoutCompletes ==
    visited # <<>> =>
        /\ error = "none"
        /\ Len(body) = 1
        /\ IF AllRows(table) = <<>> THEN body[1] = <<>>
           ELSE /\ Len(body[1]) = 1
                /\ Len(body[1][1].runs) = 1
                /\ body[1][1].runs[1].kind = "tbl"

---------------------------------------------------------------------------
(* Inlines: _handle_para called on a constructed converter *)

\* The inlines a paragraph is made of: text, wrappers one and two deep with a
\* sibling behind the inner wrapper, a link, a link whose text holds a link,
\* pictures whose file exists or not, with and without a width, and an inline
\* of unknown type
InlineShapes ==
    {Str("a"),
     Inline("Link", "outer", <<Inline("Link", "inner", <<Str("in")>>), Str("out")>>),
     Inline("Strong", "", <<Str("b")>>),
     Inline("Strong", "", <<Inline("Emph", "", <<Str("bi")>>), Str("b")>>),
     Inline("Superscript", "", <<Inline("Subscript", "", <<Str("x")>>)>>),
     Inline("Link", "url", <<Str("link")>>),
     Inline("Underline", "", <<ImageInline("anim.gif", "")>>),
     ImageInline("pic.JPG", ""),
     ImageInline("chart", "100"),
     ImageInline("chart", "1.2.3"),
     ImageInline("chart", "210mm"),
     ImageInline("pic.JPG", "210mm"),
     SizedImage("pic.JPG", "", "100"),
     SizedImage("chart", "100%", "100"),
     Inline("RawInline", "raw", <<>>)}

InlineLists == UNION {[1..k -> InlineShapes] : k \in 1..MaxInlines}

InlineHeaders ==
    {TableHeader, Header(<<CharPr(1, {"supscript"}, "absent")>>, TRUE, <<>>, <<>>, <<1>>),
     NoHeader}

InitInlines ==
    /\ header_xml \in InlineHeaders
    /\ section_xml = <<>>
    /\ Unconstructed
    /\ IdleStatic
    /\ AnyEntropy

\* The handler returned r = [st, raised, elems] for the paragraph
ParaReturned(inlines, r) ==
    /\ visited' = <<ParaBlock(inlines)>>
    /\ body' = IF r.raised = "none" THEN <<r.elems>> ELSE <<>>
    /\ error' = r.raised
    /\ StateLeft(r.st)

\* One call converter._handle_para(inlines)
ProcessPara ==
    /\ phase = "ready"
    /\ visited = <<>>
    /\ \E inlines \in InlineLists : ParaReturned(inlines, HandlePara(CurrentState, inlines))
    /\ UNCHANGED <<templateVars, phase, normal_style_id, normal_para_pr_id,
                   dynamic_style_map, outline_style_ids, placeholder_styles,
                   table_border_fill_id, tableVars, staticVars, envVars>>

NextInlines == Construct \/ ProcessPara

SpecInlines == InitInlines /\ [][NextInlines]_vars

\* The field begins and ends of the runs pair up like brackets, each end
\* naming the id of the begin it closes; open holds the ids of the fields
\* begun and not yet ended, the innermost first
RECURSIVE FieldsPaired(_, _)
FieldsPaired(runs, open) ==
    IF runs = <<>> THEN open = <<>>
    ELSE /\ Head(runs).kind = "fieldEnd" => (open # <<>> /\ Head(runs).ref = Head(open))
         /\ FieldsPaired(Tail(runs),
                         IF Head(runs).kind = "fieldBegin" THEN <<Head(runs).id>> \o open
                         ELSE IF Head(runs).kind = "fieldEnd" /\ open # <<>> THEN Tail(open)
                         ELSE open)

\* C26: for every Link inline the runs emitted are its field begin, the runs
\* of its text and its field end, and the beginIDRef of the field end is the
\* id of the field begin of that same link, also when the text of the link
\* holds another link.
C26_FieldEndNamesItsBegin ==
    (visited # <<>> /\ error = "none") =>
        \A p \in DOMAIN body[1] : FieldsPaired(body[1][p].runs, <<>>)

\* The Image inlines of a list of inlines in document order, through the
\* wrappers and links
RECURSIVE ImagesIn(_)
ImagesIn(inlines) ==
    IF inlines = <<>> THEN <<>>
    ELSE (IF Head(inlines).t = "Image" THEN <<Head(inlines)>>
          ELSE ImagesIn(Head(inlines).c))
         \o ImagesIn(Tail(inlines))

\* The Image inlines the walk came to: those up to the first one at which
\* the handler raised
RECURSIVE Encountered(_)
Encountered(imgs) ==
    IF imgs = <<>> THEN <<>>
    ELSE IF Head(imgs).width = "1.2.3" THEN <<Head(imgs)>>
    ELSE <<Head(imgs)>> \o Encountered(Tail(imgs))

\* The runs of the paragraph emitted, none when the handler raised
EmittedRuns == IF body = <<>> THEN <<>> ELSE body[1][1].runs

\* The runs of a kind among the runs, in order
RECURSIVE RunsOfKind(_, _)
RunsOfKind(runs, kinds) ==
    IF runs = <<>> THEN <<>>
    ELSE (IF Head(runs).kind \in kinds THEN <<Head(runs)>> ELSE <<>>)
         \o RunsOfKind(Tail(runs), kinds)

\* C19: every Image inline the walk comes to appends exactly one entry
\* {id, path, ext} to the image registry, in document order and whether or
\* not the file is found, and the picture emitted for it references the id of
\* that entry.
C19_OneRegistryEntryPerImage ==
    visited # <<>> =>
        LET imgs == Encountered(ImagesIn(visited[1].inlines))
            pics == RunsOfKind(EmittedRuns, {"pic"})
        IN /\ Len(images) = Len(imgs)
           /\ \A k \in DOMAIN images :
                  /\ images[k].path = imgs[k].text
                  /\ images[k].ext = Ext(imgs[k].text)
           /\ error = "none" =>
                  /\ Len(pics) = Len(images)
                  /\ \A k \in DOMAIN pics : pics[k].ref = images[k].id

\* C24: the width of the picture emitted for an Image inline never exceeds
\* int(150 * 283.465) = 42519; when the width resolved from the attributes or
\* the file exceeds that maximum the width emitted is the maximum and the
\* height is the resolved height scaled by maximum / width and truncated to
\* an integer; a picture that is not wider keeps its resolved size.
C24_PictureWidthWithinMaximum ==
    (visited # <<>> /\ error = "none") =>
        LET imgs == ImagesIn(visited[1].inlines)
            pics == RunsOfKind(EmittedRuns, {"pic"})
        IN /\ Len(pics) = Len(imgs)
           /\ \A k \in DOMAIN pics :
                  /\ pics[k].width <= 42519
                  /\ IF ResolvedSize(imgs[k]).width > 42519
                     THEN /\ pics[k].width = 42519
                          /\ pics[k].height =
                                 (ResolvedSize(imgs[k]).height * 42519)
                                     \div ResolvedSize(imgs[k]).width
                     ELSE /\ pics[k].width = ResolvedSize(imgs[k]).width
                          /\ pics[k].height = ResolvedSize(imgs[k]).height

\* A paragraph of a picture wider than the maximum, emitted with the maximum
\* width and a smaller height, and a picture of exactly the maximum width
C24_Witness ==
    /\ visited # <<>>
    /\ error = "none"
    /\ Len(RunsOfKind(EmittedRuns, {"pic"})) = 2
    /\ ResolvedSize(ImagesIn(visited[1].inlines)[1]).width > 42519
    /\ RunsOfKind(EmittedRuns, {"pic"})[1].width = 42519
    /\ RunsOfKind(EmittedRuns, {"pic"})[1].height
           < ResolvedSize(ImagesIn(visited[1].inlines)[1]).height
    /\ ResolvedSize(ImagesIn(visited[1].inlines)[2]).width = 42519
    /\ RunsOfKind(EmittedRuns, {"pic"})[2].height
           = ResolvedSize(ImagesIn(visited[1].inlines)[2]).height

\* C27: within one conversion the binary ids of the entries of the image
\* registry are pairwise distinct.
C27_BinaryIdsDistinct ==
    \A i, j \in DOMAIN images : images[i].id = images[j].id => i = j

\* The flags a wrapper or Link adds for its subtree
FlagsOf(t) ==
    CASE t = "Strong" -> {"BOLD"}
      [] t = "Emph" -> {"ITALIC"}
      [] t = "Underline" -> {"UNDERLINE"}
      [] t = "Superscript" -> {"SUPERSCRIPT"}
      [] t = "Subscript" -> {"SUBSCRIPT"}
      [] t = "Link" -> {"UNDERLINE", "COLOR_BLUE"}
      [] OTHER -> {}

\* The set of flags of the enclosing wrappers of each text leaf (Str, Code,
\* Space, SoftBreak, LineBreak) of the inlines, in document order
RECURSIVE EnclosingFlags(_, _)
EnclosingFlags(inlines, flags) ==
    IF inlines = <<>> THEN <<>>
    ELSE (IF Head(inlines).t \in {"Str", "Code", "Space", "SoftBreak", "LineBreak"}
          THEN <<flags>>
          ELSE IF Head(inlines).t \in {"Strong", "Emph", "Underline", "Superscript",
                                       "Subscript", "Link"}
          THEN EnclosingFlags(Head(inlines).c, flags \cup FlagsOf(Head(inlines).t))
          ELSE <<>>)
         \o EnclosingFlags(Tail(inlines), flags)

\* id is what the base id and the flags resolve to: the base id for no flag
\* and when no variant can be made; else the id the cache holds for the
\* combination, whose record in the style table is the base record with the
\* marks of exactly these flags
ResolvesTo(id, base, flags) ==
    IF flags = {} THEN id = base
    ELSE IF <<base, flags>> \notin DOMAIN char_pr_cache THEN id = base
    ELSE /\ id = char_pr_cache[<<base, flags>>]
         /\ header_root.hasCharProperties =>
                /\ FindIdx(header_root.charPrs, id) # 0
                /\ header_root.charPrs[FindIdx(header_root.charPrs, id)]
                       = [ApplyFormats(
                              header_root.charPrs[
                                  IF FindIdx(header_root.charPrs, base) # 0
                                  THEN FindIdx(header_root.charPrs, base)
                                  ELSE FindIdx(header_root.charPrs, 0)], flags)
                          EXCEPT !.id = id]

\* C20: each text run of a paragraph carries the id resolved from the base id
\* and exactly the flags of the wrappers that enclose its leaf; the flags of
\* a wrapper do not reach the siblings behind it.
C20_RunsCarryEnclosingFlags ==
    (visited # <<>> /\ error = "none") =>
        LET leaves == EnclosingFlags(visited[1].inlines, {})
            runs == RunsOfKind(EmittedRuns, {"t", "lineBreak"})
            base == BodyIds(header_root).char_pr_id
        IN /\ Len(runs) = Len(leaves)
           /\ \A k \in DOMAIN runs : ResolvesTo(runs[k].charPrIDRef, base, leaves[k])
           /\ \A k \in DOMAIN leaves :
                  (leaves[k] # {} /\ header_root.parsed
                   /\ (FindIdx(header_root.charPrs, base) # 0
                       \/ FindIdx(header_root.charPrs, 0) # 0))
                  => <<base, leaves[k]>> \in DOMAIN char_pr_cache
           /\ \A j, k \in DOMAIN runs :
                  (leaves[j] # leaves[k] /\ header_root.parsed
                   /\ FindIdx(header_root.charPrs, base) # 0)
                  => runs[j].charPrIDRef # runs[k].charPrIDRef

\* A bold wrapper holding an italic wrapper and a sibling behind it, followed
\* by plain text: three text runs under three different ids
C20_Witness ==
    /\ visited # <<>> /\ error = "none" /\ header_root.parsed
    /\ EnclosingFlags(visited[1].inlines, {}) = <<{"BOLD", "ITALIC"}, {"BOLD"}, {}>>
    /\ Cardinality({EmittedRuns[k].charPrIDRef : k \in DOMAIN EmittedRuns}) = 3

---------------------------------------------------------------------------
(* Cell roles and counter texts: _get_row_type, _get_col_type,             *)
(* _get_cell_style_key and _format_counter_text called on a constructed    *)
(* converter.  The methods are called by src/tests/test_converter.py and   *)
(* are written here as spec.md sections 4.3 and 4.4 describe them.         *)
(* A text is the sequence of its characters.                               *)

\* _get_row_type(row_idx, head_count, body_count): row 0 is the header row
\* when the table has head rows; the body rows are TOP, MIDDLE, BOTTOM
GetRowTypeBottomFirst(row_idx, head_count, body_count) ==
    IF head_count > 0 /\ row_idx = 0 THEN "HEADER"
    ELSE IF row_idx - head_count = body_count - 1 THEN "BOTTOM"
    ELSE IF row_idx - head_count = 0 THEN "TOP"
    ELSE "MIDDLE"

GetRowType(row_idx, head_count, body_count) ==
    IF head_count > 0 /\ row_idx = 0 THEN "HEADER"
    ELSE IF row_idx - head_count = 0 THEN "TOP"
    ELSE IF row_idx - head_count = body_count - 1 THEN "BOTTOM"
    ELSE "MIDDLE"

\* _get_col_type(col_idx, col_cnt)
GetColType(col_idx, col_cnt) ==
    IF col_idx = 0 THEN "LEFT"
    ELSE IF col_idx = col_cnt - 1 THEN "RIGHT"
    ELSE "CENTER"

\* _get_cell_style_key(row_type, col_type)
GetCellStyleKey(row_type, col_type) == row_type \o "_" \o col_type

\* The key of the cell at (row_idx, col_idx)
CellRoleKey(row_idx, head_count, body_count, col_idx, col_cnt) ==
    GetCellStyleKey(GetRowType(row_idx, head_count, body_count),
                    GetColType(col_idx, col_cnt))

\* str(n)
Digits == <<"0", "1", "2", "3", "4", "5", "6", "7", "8", "9">>

RECURSIVE Decimal(_)
Decimal(n) ==
    IF n < 10 THEN <<Digits[n + 1]>> ELSE Decimal(n \div 10) \o <<Digits[(n % 10) + 1]>>

Numeral(value, symbols) == [value |-> value, symbols |-> symbols]

\* Roman numerals written with the seven symbols alone
AdditiveNumerals ==
    <<Numeral(1000, <<"M">>), Numeral(500, <<"D">>), Numeral(100, <<"C">>),
      Numeral(50, <<"L">>), Numeral(10, <<"X">>), Numeral(5, <<"V">>), Numeral(1, <<"I">>)>>

\* The symbols of standard subtractive notation, largest first
RomanNumerals ==
    <<Numeral(1000, <<"M">>), Numeral(900, <<"C", "M">>), Numeral(500, <<"D">>),
      Numeral(400, <<"C", "D">>), Numeral(100, <<"C">>), Numeral(90, <<"X", "C">>),
      Numeral(50, <<"L">>), Numeral(40, <<"X", "L">>), Numeral(10, <<"X">>),
      Numeral(9, <<"I", "X">>), Numeral(5, <<"V">>), Numeral(4, <<"I", "V">>),
      Numeral(1, <<"I">>)>>

\* The largest symbol that fits is written and its value taken off
RECURSIVE ToRoman(_, _)
ToRoman(n, k) ==
    IF n = 0 THEN <<>>
    ELSE (IF RomanNumerals[k].value <= n THEN RomanNumerals[k].symbols ELSE <<>>)
         \o ToRoman(IF RomanNumerals[k].value <= n THEN n - RomanNumerals[k].value ELSE n,
                    IF RomanNumerals[k].value <= n THEN k ELSE k + 1)

\* str.lower() on a Roman numeral
LowerCase ==
    [c \in {"M", "D", "C", "L", "X", "V", "I"} |->
        CASE c = "M" -> "m" [] c = "D" -> "d" [] c = "C" -> "c" [] c = "L" -> "l"
          [] c = "X" -> "x" [] c = "V" -> "v" [] c = "I" -> "i"]

Lower(text) == [i \in DOMAIN text |-> LowerCase[text[i]]]

\* The ordered syllables U+AC00 (ga), U+B098 (na), U+B2E4 (da), ... by their
\* romanised names
KoreanSyllables ==
    <<"ga", "na", "da", "ra", "ma", "ba", "sa", "a", "ja", "cha", "ka", "ta", "pa", "ha">>

\* The position counted from 0
KoreanAtFromZero(n) == KoreanSyllables[(n % Len(KoreanSyllables)) + 1]

\* The n-th syllable, n counted from 1; the first again after the last
KoreanAt(n) == KoreanSyllables[((n - 1) % Len(KoreanSyllables)) + 1]

\* The alphabet a seed stands for
DetectAlphabet(seed) ==
    CASE seed = <<"1">> -> "arabic"
      [] seed = <<"I">> -> "upper_roman"
      [] seed = <<"i">> -> "lower_roman"
      [] seed = <<"ga">> -> "korean"
      [] OTHER -> "static"

\* What a Korean counter beyond the last syllable of the alphabet renders is
\* not laid down: the first syllable again, the decimal number, the seed or
\* an error
BeyondAlphabet(seed, n) == {<<KoreanAt(n)>>, Decimal(n), seed, <<"IndexError">>}

\* _format_counter_text(seed, n): the texts the call may return
FormatCounterText(seed, n) ==
    CASE DetectAlphabet(seed) = "arabic" -> {Decimal(n)}
      [] DetectAlphabet(seed) = "upper_roman" -> {ToRoman(n, 1)}
      [] DetectAlphabet(seed) = "lower_roman" -> {Lower(ToRoman(n, 1))}
      [] DetectAlphabet(seed) = "korean" ->
             IF n <= Len(KoreanSyllables) THEN {<<KoreanAt(n)>>} ELSE BeyondAlphabet(seed, n)
      [] OTHER -> {seed}

CounterSeeds ==
    {<<"1">>, <<"I">>, <<"i">>, <<"ga">>, <<"S", "e", "c", "t", "i", "o", "n">>}

InitHelpers ==
    /\ header_xml \in {TableHeader, NoHeader}
    /\ section_xml = <<>>
    /\ Unconstructed
    /\ IdleStatic
    /\ IdleEnv

\* The helper returned; the converter is as it was
HelperReturned(fn, args, ret) ==
    /\ phase = "ready"
    /\ returned' = [fn |-> fn, args |-> args, ret |-> ret]
    /\ UNCHANGED <<templateVars, phase, error, converterVars, body, visited, calls,
                   tableVars, staticVars, drawn, entropy, ast, earlier>>

\* The role key of one cell of a table of head_count head rows (at most one
\* row, for which the roles are laid down), body_count body rows and col_cnt
\* columns
CellRole ==
    \E head_count \in 0..1, body_count \in 1..MaxBodyRows, col_cnt \in 1..MaxCols :
        \E row_idx \in 0..(head_count + body_count - 1), col_idx \in 0..(col_cnt - 1) :
            HelperReturned("_get_cell_style_key",
                           <<row_idx, head_count, body_count, col_idx, col_cnt>>,
                           CellRoleKey(row_idx, head_count, body_count, col_idx, col_cnt))

\* converter._format_counter_text(seed, n)
FormatCounter ==
    \E seed \in CounterSeeds, n \in 1..MaxCount :
        \E text \in FormatCounterText(seed, n) :
            HelperReturned("_format_counter_text", <<seed, n>>, text)

NextHelpers == Construct \/ CellRole \/ FormatCounter

SpecHelpers == InitHelpers /\ [][NextHelpers]_vars

SymbolValue ==
    [c \in {"M", "D", "C", "L", "X", "V", "I"} |->
        CASE c = "M" -> 1000 [] c = "D" -> 500 [] c = "C" -> 100 [] c = "L" -> 50
          [] c = "X" -> 10 [] c = "V" -> 5 [] c = "I" -> 1]

RECURSIVE RomanValue(_)
RomanValue(text) ==
    IF text = <<>> THEN 0
    ELSE IF Len(text) > 1 /\ SymbolValue[text[1]] < SymbolValue[text[2]]
    THEN (SymbolValue[text[2]] - SymbolValue[text[1]]) + RomanValue(Tail(Tail(text)))
    ELSE SymbolValue[text[1]] + RomanValue(Tail(text))

\* No symbol stands four times in a row
NoFourAlike(text) ==
    \A i \in DOMAIN text :
        i + 3 <= Len(text) => ~(text[i] = text[i + 1] /\ text[i] = text[i + 2]
                                /\ text[i] = text[i + 3])

IsRomanOf(text, n) ==
    /\ \A i \in DOMAIN text : text[i] \in DOMAIN SymbolValue
    /\ RomanValue(text) = n
    /\ NoFourAlike(text)
    /\ n = 1 => text = <<"I">>
    /\ n = 2 => text = <<"I", "I">>
    /\ n = 3 => text = <<"I", "I", "I">>
    /\ n = 4 => text = <<"I", "V">>
    /\ n = 10 => text = <<"X">>

---------------------------------------------------------------------------
(* Construction alone: template validation *)

\* The outline levels a template's paraPr records may declare
OutlineLevels == 0..MaxOutline

\* A template with a normal style (id 0, or - when id 0 is absent - the first
\* declared style) whose charPr carries the given markers, one paraPr per
\* declared outline level and one style per referenced declared level.
\* paraPr l + 1 declares level l; style l + 1 references paraPr l + 1.
InitTemplate(declared, referenced, marks, ul, normalId) ==
    Header(<<CharPr(0, marks, ul), CharPr(1, {}, "absent")>>, TRUE,
           <<ParaPr(0, "NONE", 0)>>
               \o [i \in 1..Cardinality(declared) |->
                      ParaPr(SortedSeq(declared)[i] + 1, "OUTLINE", SortedSeq(declared)[i])],
           <<Style(normalId, 0, 0)>>
               \o [i \in 1..Cardinality(referenced) |->
                      Style(SortedSeq(referenced)[i] + 1, SortedSeq(referenced)[i] + 1, 1)],
           <<1, 2>>)

NormalMarks == {{}, {"bold"}, {"italic"}, {"supscript"}, {"subscript"}}
UnderlineTypes == {"absent", "NONE", "BOTTOM"}

\* Every style references a declared paraPr
InitTemplates ==
    UNION {{InitTemplate(d, r, m, u, n) :
               r \in SUBSET d, m \in NormalMarks, u \in UnderlineTypes, n \in {0, 9}} :
           d \in SUBSET OutlineLevels}

InitInit ==
    /\ header_xml \in InitTemplates
    /\ section_xml = <<>>
    /\ Unconstructed
    /\ IdleStatic
    /\ IdleEnv

NextInit == Construct

SpecInit == InitInit /\ [][NextInit]_vars

\* The outline levels the paraPr records of a template declare
DeclaredLevels(h) ==
    {h.paraPrs[i].level : i \in {j \in DOMAIN h.paraPrs : h.paraPrs[j].type = "OUTLINE"}}

\* The levels are exactly 0..k
StartAtZeroContiguous(levels) == levels = 0..(Cardinality(levels) - 1)

\* C8: construction from a template whose paraPr records declare outline
\* levels that do not start at 0 or have a gap fails with TemplateError;
\* construction succeeds when the declared levels are exactly 0..k (the normal
\* style being clean).
C8_OutlineLevelsValidated ==
    phase # "new" =>
        /\ ~StartAtZeroContiguous(DeclaredLevels(header_xml))
               => (phase = "failed" /\ error = "TemplateError")
        /\ (DeclaredLevels(header_xml) # {}
            /\ StartAtZeroContiguous(DeclaredLevels(header_xml))
            /\ ~NormalStyleDirty(header_xml)) => phase = "ready"

\* C9: construction fails with TemplateError exactly when the charPr of the
\* normal style carries bold, italic, an underline of a type other than NONE,
\* supscript or subscript.
C9_DirtyNormalStyleRejected ==
    phase # "new" =>
        ((phase = "failed" /\ error = "TemplateError") <=> NormalStyleDirty(header_xml))

---------------------------------------------------------------------------
(* The block walk: convert() on a constructed converter *)

\* A template paragraph of section0.xml and its runs
SecPara(para_pr_id, runs) == [paraPrIDRef |-> para_pr_id, runs |-> runs]
SecRun(char_pr_id, text) == [charPrIDRef |-> char_pr_id, text |-> text]

\* Normal style 0, a body style 1 and the styles 2, 3, 4 of outline levels
\* 0, 1, 2, each with a paraPr and a charPr of its own
OutlineHeader ==
    Header(<<CharPr(0, {}, "NONE"), CharPr(1, {}, "absent"), CharPr(2, {}, "absent"),
             CharPr(3, {}, "absent")>>, TRUE,
           <<ParaPr(0, "NONE", 0), ParaPr(1, "OUTLINE", 0), ParaPr(2, "OUTLINE", 1),
             ParaPr(3, "OUTLINE", 2)>>,
           <<Style(0, 0, 0), Style(1, 0, 0), Style(2, 1, 1), Style(3, 2, 2), Style(4, 3, 3)>>,
           <<1, 2>>)

\* A header without outline levels, without a charPr of id 0 and with a
\* single border fill
BareHeader ==
    Header(<<CharPr(1, {}, "absent")>>, TRUE, <<ParaPr(1, "NONE", 0)>>,
           <<Style(0, 1, 1)>>, <<1>>)

\* A section whose {{H3}} placeholder follows the literal "1. " and whose
\* {{body}} placeholder stands alone
SeededSection ==
    <<SecPara(3, <<SecRun(3, Text("1. ", "H3"))>>),
      SecPara(0, <<SecRun(0, Text("", "body"))>>)>>

WalkTemplates ==
    {<<OutlineHeader, <<>>>>, <<OutlineHeader, SeededSection>>,
     <<BareHeader, <<>>>>, <<BareHeader, SeededSection>>, <<NoHeader, <<>>>>}

HeaderInlines(level) ==
    IF level = 1 THEN {<<Str("Title")>>, <<Inline("Strong", "", <<Str("Title")>>)>>}
    ELSE {<<Str("Title")>>}

\* An inline type and a block type the walk has no handler for
RawInline == Inline("RawInline", "raw", <<>>)
RawBlock == Block("RawBlock", 0, <<>>, NoContent)

ParaInlines ==
    {<<Str("text")>>, <<Inline("Link", "url", <<Str("text")>>)>>, <<RawInline, Str("text")>>}

\* Lists of one item: a paragraph, an unhandled block before a paragraph, a
\* paragraph before a nested list
WalkLists ==
    {ListBlock("BulletList", <<<<ParaBlock(<<Str("text")>>)>>>>),
     ListBlock("BulletList", <<<<RawBlock, ParaBlock(<<Str("text")>>)>>>>),
     ListBlock("OrderedList",
               <<<<ParaBlock(<<Str("text")>>),
                   ListBlock("BulletList", <<<<ParaBlock(<<Str("text")>>)>>>>)>>>>)}

\* A table of one column and one row whose cell holds a paragraph
WalkTables ==
    {TableContent(1, <<>>,
                  <<TableBody(<<>>, <<<<Cell(1, 1, <<ParaBlock(<<Str("text")>>)>>)>>>>)>>,
                  <<>>)}

Init ==
    /\ \E template \in WalkTemplates :
          /\ header_xml = template[1]
          /\ section_xml = template[2]
    /\ Unconstructed
    /\ IdleStatic
    /\ AnyEntropy

\* convert() is inside the loop of _process_blocks over the top-level blocks
Walking ==
    /\ phase = "ready"
    /\ pc = "object"
    /\ Len(visited) < MaxBlocks

\* The handler returned r = [st, raised, elems] for the block; an exception
\* ends convert() without a body
Walked(block, r) ==
    /\ visited' = Append(visited, block)
    /\ StateLeft(r.st)
    /\ IF r.raised # "none"
       THEN /\ phase' = "failed"
            /\ error' = r.raised
            /\ body' = <<>>
       ELSE /\ body' = Append(body, r.elems)
            /\ UNCHANGED <<phase, error>>
    /\ UNCHANGED <<templateVars, normal_style_id, normal_para_pr_id, dynamic_style_map,
                   outline_style_ids, placeholder_styles, table_border_fill_id,
                   tableVars, staticVars, envVars>>

WalkHeader ==
    /\ Walking
    /\ \E level \in 1..MaxHeaderLevel : \E inlines \in HeaderInlines(level) :
          Walked(HeaderBlock(level, inlines),
                 HandleHeader(CurrentState, HeaderBlock(level, inlines)))

WalkPara ==
    /\ Walking
    /\ \E inlines \in ParaInlines :
          Walked(ParaBlock(inlines), HandlePara(CurrentState, inlines))

WalkTable ==
    /\ Walking
    /\ \E content \in WalkTables :
          Walked(TableBlock(content), HandleTableElem(CurrentState, content))

WalkList ==
    /\ Walking
    /\ \E block \in WalkLists : Walked(block, HandleList(CurrentState, block, 0))

\* A block type the walk has no handler for
WalkOther ==
    /\ Walking
    /\ Walked(RawBlock, HandleBlock(CurrentState, RawBlock))

\* The blocks are exhausted: convert() returns the body and the header
ConvertReturn ==
    /\ phase = "ready"
    /\ pc = "object"
    /\ phase' = "converted"
    /\ header_root' = HeaderReturned(header_root)
    /\ UNCHANGED <<templateVars, error, max_char_pr_id, char_pr_cache, normal_style_id,
                   normal_para_pr_id, dynamic_style_map, outline_style_ids,
                   placeholder_styles, table_border_fill_id, max_para_pr_id, images,
                   last_field_id, body, visited, calls, tableVars, staticVars, drawn,
                   envVars>>

Next ==
    Construct \/ WalkHeader \/ WalkPara \/ WalkTable \/ WalkList \/ WalkOther \/ ConvertReturn

Spec == Init /\ [][Next]_vars

\* The style ids an emitted element list references, as <<kind, id>> pairs:
\* paraPrIDRef and styleIDRef of paragraphs, charPrIDRef of runs,
\* borderFillIDRef of tables and cells, through the cells' contents
RECURSIVE Refs(_)
RunRefs(run) ==
    {<<"charPr", run.charPrIDRef>>}
    \cup (IF run.kind = "tbl"
          THEN {<<"borderFill", run.tbl.borderFillIDRef>>}
               \cup UNION {{<<"borderFill", run.tbl.cells[k].borderFillIDRef>>}
                           \cup Refs(run.tbl.cells[k].subList) : k \in DOMAIN run.tbl.cells}
          ELSE {})

Refs(elems) ==
    UNION {{<<"style", elems[i].styleIDRef>>, <<"paraPr", elems[i].paraPrIDRef>>}
           \cup UNION {RunRefs(elems[i].runs[j]) : j \in DOMAIN elems[i].runs}
           : i \in DOMAIN elems}

\* The record a reference names exists in the header tree
RefExists(ref) ==
    CASE ref[1] = "charPr" -> FindIdx(header_root.charPrs, ref[2]) # 0
      [] ref[1] = "paraPr" -> FindIdx(header_root.paraPrs, ref[2]) # 0
      [] ref[1] = "style" -> FindIdx(header_root.styles, ref[2]) # 0
      [] ref[1] = "borderFill" -> ref[2] \in Range(header_root.borderFills)

\* C2: after convert() returns, every style id referenced by the emitted body
\* (paraPrIDRef, styleIDRef, charPrIDRef, borderFillIDRef of paragraphs, runs,
\* tables and cells) is the id of a record of the final style table.
C2_ReferencedIdsExist ==
    (phase = "converted" /\ header_root.parsed)
        => \A i \in DOMAIN body : \A ref \in Refs(body[i]) : RefExists(ref)

\* The literal that precedes the {{H<level>}} placeholder in the template
\* section ("" when there is none): the numbering seed of the level
SeedOf(level) ==
    LET hits == {p \in RunPositions(section_xml) :
                    Upper(section_xml[p[1]].runs[p[2]].text.name) = PlaceholderName(level)}
    IN IF hits = {} THEN ""
       ELSE LET p == CHOOSE q \in hits : TRUE IN section_xml[p[1]].runs[p[2]].text.lit

\* The counter a level-L header at position i is due: one more than the
\* level-L headers before it since the last header of a shallower level
CounterAt(i) ==
    1 + Cardinality({j \in 1..(i - 1) :
                        /\ visited[j].t = "Header"
                        /\ visited[j].level = visited[i].level
                        /\ \A k \in (j + 1)..(i - 1) :
                               ~(visited[k].t = "Header" /\ visited[k].level < visited[i].level)})

\* The text of the first run of the paragraph emitted for block i
FirstRunText(i) ==
    IF body[i] # <<>> /\ body[i][1].runs # <<>> THEN body[i][1].runs[1].text ELSE ""

\* C5: with a numbering seed on level L, the level-L headers are rendered with
\* the counters 1, 2, 3, ... counted among the level-L headers since the most
\* recent header of a shallower level, starting again at 1 after such a header.
C5_CounterCountsAndResets ==
    \A i \in DOMAIN body :
        (visited[i].t = "Header" /\ SeedOf(visited[i].level) = "1. ")
            => FirstRunText(i) = ToString(CounterAt(i)) \o ". "

\* C6: with the seed "1. " before {{H3}}, n consecutive level-3 headers are
\* emitted with the prefix runs "1. ", "2. ", ..., "n. " in document order.
C6_ConsecutiveH3Prefixes ==
    (/\ phase = "converted"
     /\ SeedOf(3) = "1. "
     /\ visited # <<>>
     /\ \A i \in DOMAIN visited : visited[i].t = "Header" /\ visited[i].level = 3)
        => \A i \in DOMAIN body : FirstRunText(i) = ToString(i) \o ". "

\* C7: without an H<level> placeholder, a Header of level L is emitted as
\* exactly one paragraph with the style id and paraPr id mapped to outline
\* level L - 1, its text runs carrying the charPr id of that level's style.
C7_FallbackHeaderUsesLevelBelow ==
    \A i \in DOMAIN body :
        (/\ visited[i].t = "Header"
         /\ visited[i].inlines = <<Str("Title")>>
         /\ PlaceholderName(visited[i].level) \notin DOMAIN placeholder_styles
         /\ (visited[i].level - 1) \in DOMAIN dynamic_style_map)
            => /\ Len(body[i]) = 1
               /\ body[i][1].styleIDRef = dynamic_style_map[visited[i].level - 1].style_id
               /\ body[i][1].paraPrIDRef = dynamic_style_map[visited[i].level - 1].para_pr_id
               /\ \A k \in DOMAIN body[i][1].runs :
                      body[i][1].runs[k].charPrIDRef
                          = dynamic_style_map[visited[i].level - 1].char_pr_id

\* C17: in the header returned by convert() the itemCnt attribute of each
\* collection convert() updates (charProperties, paraProperties, numberings,
\* borderFills) equals the number of records the collection holds.
C17_ItemCntMatchesRecords ==
    (phase = "converted" /\ pc = "object" /\ header_root.parsed)
        => /\ header_root.hasCharProperties
               => header_root.itemCnt.charProperties = Len(header_root.charPrs)
           /\ header_root.hasParaProperties
               => header_root.itemCnt.paraProperties = Len(header_root.paraPrs)
           /\ header_root.hasNumberings
               => header_root.itemCnt.numberings = Len(header_root.numberings)
           /\ header_root.itemCnt.borderFills = Len(header_root.borderFills)

\* convert() returned after the walk appended a character-format variant, a
\* list paraPr and a numbering to the header
C17_Witness ==
    /\ phase = "converted" /\ pc = "object" /\ header_root.parsed
    /\ Len(header_root.charPrs) > Len(header_xml.charPrs)
    /\ Len(header_root.paraPrs) > Len(header_xml.paraPrs)
    /\ Len(header_root.numberings) > Len(header_xml.numberings)

\* Neither an H{level} placeholder nor the outline level level - 1
Unresolvable(level) ==
    /\ PlaceholderName(level) \notin DOMAIN placeholder_styles
    /\ (level - 1) \notin DOMAIN dynamic_style_map

\* The walk of a constructed converter reaches a Header it cannot resolve:
\* convert() raises ValueError and returns no body
RaisesAtHeader ==
    (/\ phase = "ready"
     /\ Len(visited') = Len(visited) + 1
     /\ visited'[Len(visited')].t = "Header"
     /\ Unresolvable(visited'[Len(visited')].level))
    => /\ phase' = "failed"
       /\ error' = "ValueError"
       /\ body' = <<>>

\* After the exception no block is visited and nothing is emitted
StoppedForGood ==
    phase = "failed" => /\ phase' = "failed"
                        /\ visited' = visited
                        /\ body' = body

\* C28: a Header of level L for which the template has no H{L} placeholder
\* and no detected outline level L - 1 makes convert() raise at that node: the
\* walk stops there, no body fragment is returned and the blocks after it are
\* never emitted.
C28_UnresolvableHeaderRaises == [][RaisesAtHeader /\ StoppedForGood]_vars

\* The walk failed at an unresolvable Header that followed an emitted block
C28_Witness ==
    /\ phase = "failed"
    /\ error = "ValueError"
    /\ Len(visited) >= 2
    /\ visited[Len(visited)].t = "Header"
    /\ Unresolvable(visited[Len(visited)].level)
    /\ \A i \in 1..(Len(visited) - 1) : visited[i].t # "Header"
    /\ body = <<>>

IsList(block) == block.t \in {"BulletList", "OrderedList"}

\* The number of top-level lists among the blocks
RECURSIVE TopLevelLists(_)
TopLevelLists(blocks) ==
    IF blocks = <<>> THEN 0
    ELSE (IF IsList(Head(blocks)) THEN 1 ELSE 0) + TopLevelLists(Tail(blocks))

\* The number of lists among the blocks, the lists nested in the items of a
\* list included
RECURSIVE ListsIn(_)
ListsIn(blocks) ==
    IF blocks = <<>> THEN 0
    ELSE (IF IsList(Head(blocks)) THEN 1 + ListsIn(FlattenItems(Head(blocks).items)) ELSE 0)
         + ListsIn(Tail(blocks))

NumberingsAppended == Len(header_root.numberings) - Len(header_xml.numberings)

\* C22: every list the walk handles, a list nested in an item of another list
\* included, appends exactly one fresh numbering definition to the header:
\* the number of numberings appended equals the number of lists of the blocks
\* walked, at every depth, and the ids of the numberings are pairwise distinct.
C22_OneNumberingPerList ==
    phase \in {"ready", "converted"} =>
        /\ NumberingsAppended = ListsIn(visited)
        /\ \A i, j \in DOMAIN header_root.numberings :
               header_root.numberings[i].id = header_root.numberings[j].id => i = j

\* C22 as stated: the number of numberings appended equals the number of
\* top-level lists, a nested list appending none
C22_OneNumberingPerTopLevelList ==
    phase \in {"ready", "converted"} => NumberingsAppended = TopLevelLists(visited)

\* A conversion that returned after a list with a nested list: two numberings
\* for one top-level list
C22_Witness ==
    /\ phase = "converted"
    /\ \E i \in DOMAIN visited :
           IsList(visited[i]) /\ ListsIn(<<visited[i]>>) = 2
    /\ NumberingsAppended = ListsIn(visited)
    /\ NumberingsAppended > TopLevelLists(visited)

\* The node types _process_blocks and _process_inlines_to_elems dispatch on
KnownBlocks == {"Header", "Para", "Plain", "BulletList", "OrderedList", "CodeBlock", "Table"}
KnownInlines ==
    {"Str", "Space", "Strong", "Emph", "Underline", "Superscript", "Subscript", "Link",
     "Note", "Code", "Image", "SoftBreak", "LineBreak"}

\* A tree with the nodes of unknown type removed, at every depth
RECURSIVE WithoutUnknownInlines(_)
WithoutUnknownInlines(inlines) ==
    IF inlines = <<>> THEN <<>>
    ELSE (IF Head(inlines).t \in KnownInlines
          THEN <<[Head(inlines) EXCEPT !.c = WithoutUnknownInlines(@)]>> ELSE <<>>)
         \o WithoutUnknownInlines(Tail(inlines))

RECURSIVE WithoutUnknownBlocks(_)
WithoutUnknownRows(rows) ==
    [r \in DOMAIN rows |->
        [k \in DOMAIN rows[r] |->
            [rows[r][k] EXCEPT !.blocks = WithoutUnknownBlocks(@)]]]

WithoutUnknownContent(content) ==
    [content EXCEPT !.head = WithoutUnknownRows(@),
                    !.foot = WithoutUnknownRows(@),
                    !.bodies = [b \in DOMAIN @ |->
                                   [inter |-> WithoutUnknownRows(@[b].inter),
                                    main |-> WithoutUnknownRows(@[b].main)]]]

WithoutUnknownBlocks(blocks) ==
    IF blocks = <<>> THEN <<>>
    ELSE (IF Head(blocks).t \in KnownBlocks
          THEN <<[Head(blocks) EXCEPT
                     !.inlines = WithoutUnknownInlines(@),
                     !.items = [i \in DOMAIN @ |-> WithoutUnknownBlocks(@[i])],
                     !.content = WithoutUnknownContent(@)]>>
          ELSE <<>>)
         \o WithoutUnknownBlocks(Tail(blocks))

\* The state __init__ leaves behind for the template of the run
Constructed ==
    ConverterState(IF header_xml.present THEN ParsedRoot(header_xml) ELSE NoRoot,
                   IF header_xml.present THEN MaxIdOf(header_xml.charPrs) ELSE 0,
                   IF header_xml.present THEN MaxIdOf(header_xml.paraPrs) ELSE 0,
                   EmptyMap, <<>>, <<>>, 0, 0)

\* The body fragment: the elements of the visited blocks in order
RECURSIVE Fragment(_)
Fragment(parts) == IF parts = <<>> THEN <<>> ELSE Head(parts) \o Fragment(Tail(parts))

HasUnknown(blocks) == WithoutUnknownBlocks(blocks) # blocks

\* C11: a block or inline of a type the walk does not handle emits nothing
\* and does not abort the walk; the body fragment of a list of nodes equals
\* the fragment of the same list with the unknown nodes removed.
C11_UnknownNodesEmitNothing ==
    (phase \in {"ready", "converted"} /\ pc = "object" /\ HasUnknown(visited))
        => /\ ProcessBlocks(Constructed, WithoutUnknownBlocks(visited)).raised = "none"
           /\ Fragment(body) =
                  ProcessBlocks(Constructed, WithoutUnknownBlocks(visited)).elems

---------------------------------------------------------------------------
(* Two conversions of one tree with one template, each by a converter of   *)
(* its own                                                                 *)

TwiceHeaders == {OutlineHeader, BareHeader, NoHeader}

\* Trees of text, formats, a link, a picture, a table, a list
TwiceAsts ==
    {Ast(<<ParaBlock(<<Str("text")>>)>>),
     Ast(<<HeaderBlock(1, <<Str("Title")>>),
           ParaBlock(<<Inline("Strong", "", <<Str("text")>>)>>)>>),
     Ast(<<ParaBlock(<<Inline("Link", "url", <<Str("text")>>)>>)>>),
     Ast(<<ParaBlock(<<ImageInline("pic.JPG", "")>>)>>),
     Ast(<<ParaBlock(<<Str("text")>>),
           ListBlock("BulletList", <<<<ParaBlock(<<Str("text")>>)>>>>)>>)}
    \cup {Ast(<<TableBlock(content)>>) : content \in WalkTables}

InitTwice ==
    /\ header_xml \in TwiceHeaders
    /\ section_xml = <<>>
    /\ Unconstructed
    /\ IdleStatic
    /\ entropy \in Entropies
    /\ ast \in TwiceAsts
    /\ earlier = NoRun
    /\ returned = NoCall

\* _process_blocks returned r for the blocks of the tree: convert() returns
\* the body and the header, or the exception leaves it
TreeConverted(r) ==
    /\ visited' = ast.blocks
    /\ StateLeft(IF r.raised # "none" THEN r.st
                 ELSE [r.st EXCEPT !.header_root = HeaderReturned(@)])
    /\ IF r.raised # "none"
       THEN /\ phase' = "failed"
            /\ error' = r.raised
            /\ body' = <<>>
       ELSE /\ phase' = "converted"
            /\ body' = r.parts
            /\ UNCHANGED error

\* converter.convert()
ConvertTree ==
    /\ phase = "ready"
    /\ TreeConverted(ProcessBlocks(CurrentState, ast.blocks))
    /\ UNCHANGED <<templateVars, normal_style_id, normal_para_pr_id, dynamic_style_map,
                   outline_style_ids, placeholder_styles, table_border_fill_id,
                   tableVars, staticVars, envVars>>

\* The first conversion is over: what it returned is kept, a second
\* converter is about to be constructed from the same tree and template, at
\* another time and with another state of the random source
FreshInstance ==
    /\ phase = "converted"
    /\ ~earlier.done
    /\ earlier' = [done |-> TRUE, body |-> body, header |-> header_root,
                   images |-> images]
    /\ entropy' \in Entropies
    /\ phase' = "new"
    /\ header_root' = NoRoot
    /\ max_char_pr_id' = 0
    /\ char_pr_cache' = EmptyMap
    /\ normal_style_id' = 0
    /\ normal_para_pr_id' = 1
    /\ dynamic_style_map' = EmptyMap
    /\ outline_style_ids' = EmptyMap
    /\ placeholder_styles' = EmptyMap
    /\ table_border_fill_id' = 0
    /\ max_para_pr_id' = 0
    /\ images' = <<>>
    /\ last_field_id' = 0
    /\ drawn' = 0
    /\ body' = <<>>
    /\ visited' = <<>>
    /\ calls' = <<>>
    /\ UNCHANGED <<templateVars, error, tableVars, staticVars, ast, returned>>

NextTwice == Construct \/ ConvertTree \/ FreshInstance

SpecTwice == InitTwice /\ [][NextTwice]_vars

\* C18: two conversions of the same tree with the same template, each by a
\* fresh converter, return the same body fragment, the same header and the
\* same image registry.
C18_ConversionDeterministic ==
    (earlier.done /\ phase = "converted")
        => /\ body = earlier.body
           /\ header_root = earlier.header
           /\ images = earlier.images

---------------------------------------------------------------------------
(* convert(page_setup_xml): the page setup of the template put into the    *)
(* body                                                                    *)

\* No page setup (None) and the secPr and ctrl children of the template's
\* first run
PageSetups == {"", "<hp:secPr/><hp:ctrl/>"}

\* Trees of which the first block emits a run, trees that emit no run and
\* a tree of which the second block emits the first run
PageSetupAsts ==
    TwiceAsts
    \cup {Ast(<<>>), Ast(<<RawBlock>>), Ast(<<ParaBlock(<<RawInline>>)>>),
          Ast(<<ParaBlock(<<RawInline>>), ParaBlock(<<Str("text")>>)>>)}

InitPageSetup ==
    /\ header_xml \in TwiceHeaders
    /\ section_xml = <<>>
    /\ Unconstructed
    /\ IdleStatic
    /\ entropy \in Entropies
    /\ ast \in PageSetupAsts
    /\ earlier = NoRun
    /\ returned = NoCall

\* The page setup inserted behind the opening tag of the first hp:run of the
\* paragraphs, which are left as they are when none of them has a run
RECURSIVE InsertedInFirstRun(_, _)
InsertedInFirstRun(paras, page_setup_xml) ==
    IF paras = <<>> THEN <<>>
    ELSE IF Head(paras).runs # <<>>
    THEN <<[Head(paras) EXCEPT !.runs[1].pageSetup = page_setup_xml]>> \o Tail(paras)
    ELSE <<Head(paras)>> \o InsertedInFirstRun(Tail(paras), page_setup_xml)

\* Lines 535-546: the body is searched for the pattern (<hp:run [^>]*>); the
\* runs are written with the prefix hp only when the prefix is registered
\* with ElementTree, which lines 549-550 do after the search and
\* convert_to_hwpx does before it
PageSetupInjected(paras, page_setup_xml, hp_registered) ==
    IF page_setup_xml # "" /\ hp_registered
    THEN InsertedInFirstRun(paras, page_setup_xml)
    ELSE paras

\* _process_blocks returned r: convert(page_setup_xml) returns the body and
\* the header, or the exception leaves it
PageSetupConverted(r, page_setup_xml, hp_registered) ==
    /\ visited' = ast.blocks
    /\ returned' = [fn |-> "convert", args |-> <<page_setup_xml>>, ret |-> "body"]
    /\ StateLeft(IF r.raised # "none" THEN r.st
                 ELSE [r.st EXCEPT !.header_root = HeaderReturned(@)])
    /\ IF r.raised # "none"
       THEN /\ phase' = "failed"
            /\ error' = r.raised
            /\ body' = <<>>
       ELSE /\ phase' = "converted"
            /\ body' = <<PageSetupInjected(r.elems, page_setup_xml, hp_registered)>>
            /\ UNCHANGED error

\* converter.convert(page_setup_xml) in a process in which the prefix hp is
\* registered or not
ConvertWithPageSetup ==
    /\ phase = "ready"
    /\ returned = NoCall
    /\ \E page_setup_xml \in PageSetups, hp_registered \in BOOLEAN :
          PageSetupConverted(ProcessBlocks(CurrentState, ast.blocks), page_setup_xml,
                             hp_registered)
    /\ UNCHANGED <<templateVars, normal_style_id, normal_para_pr_id, dynamic_style_map,
                   outline_style_ids, placeholder_styles, table_border_fill_id,
                   tableVars, staticVars, entropy, ast, earlier>>

NextPageSetup == Construct \/ ConvertWithPageSetup

SpecPageSetup == InitPageSetup /\ [][NextPageSetup]_vars

\* The runs of the paragraphs in document order
RECURSIVE RunsOf(_)
RunsOf(paras) == IF paras = <<>> THEN <<>> ELSE Head(paras).runs \o RunsOf(Tail(paras))

\* C30: whenever convert() is given a page setup fragment, the body it
\* returns contains the fragment exactly once, as the first child content of
\* the first run element, for every tree, a tree without blocks and a tree
\* whose blocks emit no run included.
C30_PageSetupInFirstRun ==
    (phase = "converted" /\ returned.fn = "convert" /\ returned.args # <<"">>)
        => /\ RunsOf(body[1]) # <<>>
           /\ RunsOf(body[1])[1].pageSetup = returned.args[1]
           /\ \A k \in 2..Len(RunsOf(body[1])) : RunsOf(body[1])[k].pageSetup = ""

---------------------------------------------------------------------------
(* convert_to_hwpx *)

DirtyTemplate == InitTemplate({}, {}, {"bold"}, "absent", 0)
GappedTemplate == InitTemplate({1}, {1}, {}, "NONE", 0)

StaticReferences ==
    {Reference("missing", NoHeader, <<>>), Reference("not_zip", NoHeader, <<>>),
     Reference("archive", OutlineHeader, <<>>), Reference("archive", BareHeader, <<>>),
     Reference("archive", NoHeader, <<>>), Reference("archive", DirtyTemplate, <<>>),
     Reference("archive", GappedTemplate, <<>>)}

StaticAsts ==
    {NoAst, Ast(<<>>), Ast(<<ParaBlock(<<Str("text")>>)>>),
     Ast(<<HeaderBlock(1, <<Str("Title")>>)>>),
     Ast(<<HeaderBlock(1, <<Str("Title")>>), ParaBlock(<<Str("text")>>)>>),
     Ast(<<ParaBlock(<<Str("text")>>), Block("RawBlock", 0, <<>>, NoContent)>>)}

InitStatic ==
    /\ header_xml = NoHeader
    /\ section_xml = <<>>
    /\ Unconstructed
    /\ pc = "start"
    /\ \E reference \in StaticReferences, json_ast \in StaticAsts :
          env = [reference |-> reference, json_ast |-> json_ast]
    /\ output_file = "absent"
    /\ IdleEnv

\* The reference path must exist and json_ast must be given
CheckArguments ==
    /\ pc = "start"
    /\ IF env.reference.kind = "missing"
       THEN pc' = "raised" /\ error' = "FileNotFoundError"
       ELSE IF ~env.json_ast.present
       THEN pc' = "raised" /\ error' = "ValueError"
       ELSE pc' = "checked" /\ UNCHANGED error
    /\ UNCHANGED <<templateVars, phase, converterVars, body, visited, calls, tableVars,
                   env, output_file, drawn, envVars>>

\* The reference is opened as a zip archive; header.xml and section0.xml are
\* read from it
ReadReference ==
    /\ pc = "checked"
    /\ IF env.reference.kind = "not_zip"
       THEN pc' = "raised" /\ error' = "BadZipFile" /\ UNCHANGED templateVars
       ELSE /\ pc' = "read"
            /\ header_xml' = env.reference.header_xml
            /\ section_xml' = env.reference.section_xml
            /\ UNCHANGED error
    /\ UNCHANGED <<phase, converterVars, body, visited, calls, tableVars, env, output_file,
                   drawn, envVars>>

\* converter = MarkdownToHwpx(json_ast, header_xml_content, section_xml_content, input_path)
StaticConstruct ==
    /\ pc = "read"
    /\ Constructor
    /\ pc' = IF header_xml.present /\ ParseError(header_xml) # "none"
             THEN "raised" ELSE "constructed"
    /\ UNCHANGED <<env, output_file>>

\* convert() returned r = [st, raised, elems, parts] for the blocks, or raised
Converted(blocks, r) ==
    /\ visited' = blocks
    /\ StateLeft(IF r.raised # "none" THEN r.st
                 ELSE [r.st EXCEPT !.header_root = HeaderReturned(@)])
    /\ IF r.raised # "none"
       THEN /\ pc' = "raised"
            /\ phase' = "failed"
            /\ error' = r.raised
            /\ body' = <<>>
       ELSE /\ pc' = "converted"
            /\ phase' = "converted"
            /\ body' = r.parts
            /\ UNCHANGED error

\* xml_body, new_header_xml = converter.convert(page_setup_xml)
StaticConvert ==
    /\ pc = "constructed"
    /\ Converted(env.json_ast.blocks, ProcessBlocks(CurrentState, env.json_ast.blocks))
    /\ UNCHANGED <<templateVars, normal_style_id, normal_para_pr_id, dynamic_style_map,
                   outline_style_ids, placeholder_styles, table_border_fill_id,
                   tableVars, env, output_file, envVars>>

\* The output archive is opened for writing and filled
WriteOutput ==
    /\ pc = "converted"
    /\ pc' = "done"
    /\ output_file' = "written"
    /\ UNCHANGED <<templateVars, phase, error, converterVars, body, visited, calls,
                   tableVars, env, drawn, envVars>>

NextStatic == CheckArguments \/ ReadReference \/ StaticConstruct \/ StaticConvert \/ WriteOutput

SpecStatic == InitStatic /\ [][NextStatic]_vars

\* The reference is an archive whose header.xml passes the validation
ValidReference(reference) ==
    /\ reference.kind = "archive"
    /\ ~(reference.header_xml.present /\ ParseError(reference.header_xml) # "none")

\* C10: convert_to_hwpx ends with TemplateError on a missing reference, a
\* reference that is no archive or a template failing validation, and with
\* ConversionError on a None document tree; in each case the output file is
\* neither created nor written.
C10_FatalInputErrorsAbort ==
    pc \in {"raised", "done"} =>
        /\ (env.json_ast.present /\ ~ValidReference(env.reference))
               => (pc = "raised" /\ error = "TemplateError" /\ output_file = "absent")
        /\ (~env.json_ast.present /\ ValidReference(env.reference))
               => (pc = "raised" /\ error = "ConversionError" /\ output_file = "absent")

====
